---- MODULE Spec2Model ----
(***************************************************************************)
(* Model of scripts/verify-and-fix.js: the ComprehensivePipelineValidator  *)
(* that validates the card image inventory (original, art_only,            *)
(* art_and_name; WebP and AVIF) and repairs it in pipeline order.          *)
(*                                                                         *)
(* The file system is the function fs from paths to file contents.  The    *)
(* outcome of every external operation (CDN request, sharp/join-images     *)
(* call) is chosen by the environment with \E in the action FixIssue.      *)
(***************************************************************************)
EXTENDS Integers, Sequences, FiniteSets, TLC

(***************************************************************************)
(* Bounds of the model.                                                    *)
(***************************************************************************)
\* number of transient environment faults (503, request error, codec failure)
MaxFaults == 1
\* largest distance, in pixels, of a probed width or height from the expected one
MaxOff == 3
\* the tallest source the crop module is given
MaxHeight == 1030

(***************************************************************************)
(* CONFIG and PIPELINE_STEPS.                                              *)
(***************************************************************************)
\* the model runs the first two languages over a range of one card
languages == <<"EN", "IT">>
cardRange == [start |-> 1, end |-> 1]
tolerancePx == 2
maxAttempts == 3

DOWNLOAD == "download"
RESIZE_ORIGINAL == "resize_original"
CONVERT_ORIGINAL == "convert_original"
CROP_ART_ONLY == "crop_art_only"
CONVERT_ART_ONLY == "convert_art_only"
CROP_ART_AND_NAME == "crop_art_and_name"
CONVERT_ART_AND_NAME == "convert_art_and_name"

PIPELINE_STEPS ==
  { DOWNLOAD, RESIZE_ORIGINAL, CONVERT_ORIGINAL, CROP_ART_ONLY,
    CONVERT_ART_ONLY, CROP_ART_AND_NAME, CONVERT_ART_AND_NAME }

LanguageSet == { languages[i] : i \in 1..Len(languages) }
CardNums == cardRange.start .. cardRange.end

(***************************************************************************)
(* Files.  A file is absent, an image of some width and height, or a file  *)
(* that sharp cannot read (st = "corrupt").                                *)
(***************************************************************************)
Absent == [st |-> "absent", w |-> 0, h |-> 0]
Corrupt == [st |-> "corrupt", w |-> 0, h |-> 0]
Image(width, height) == [st |-> "image", w |-> width, h |-> height]

\* getFilePaths: a path is its directory (language or "shared"), the
\* variant folder, the card number, the extension and a temporary suffix.
Path(dir, kind, n, ext, tmp) ==
  [dir |-> dir, kind |-> kind, n |-> n, ext |-> ext, tmp |-> tmp]

\* getFilePaths with the art_and_name variant kept under the first language only
GetFilePathsSharedVariants(cardNum, language) ==
  [ originalWebp   |-> Path(language, "original", cardNum, "webp", ""),
    originalAvif   |-> Path(language, "original", cardNum, "avif", ""),
    artOnlyWebp    |-> Path("shared", "art_only", cardNum, "webp", ""),
    artOnlyAvif    |-> Path("shared", "art_only", cardNum, "avif", ""),
    artAndNameWebp |-> Path(languages[1], "art_and_name", cardNum, "webp", ""),
    artAndNameAvif |-> Path(languages[1], "art_and_name", cardNum, "avif", "") ]

GetFilePaths(cardNum, language) ==
  [ originalWebp   |-> Path(language, "original", cardNum, "webp", ""),
    originalAvif   |-> Path(language, "original", cardNum, "avif", ""),
    artOnlyWebp    |-> Path("shared", "art_only", cardNum, "webp", ""),
    artOnlyAvif    |-> Path("shared", "art_only", cardNum, "avif", ""),
    artAndNameWebp |-> Path(language, "art_and_name", cardNum, "webp", ""),
    artAndNameAvif |-> Path(language, "art_and_name", cardNum, "avif", "") ]

\* filePath.replace(/\.(webp|avif)$/, "_temp.$1") and
\* destinationFile.replace(".webp", "_top.webp") etc.
TempOf(p, suffix) == [p EXCEPT !.tmp = suffix]

ArtifactPaths ==
  UNION { { GetFilePaths(n, l).originalWebp, GetFilePaths(n, l).originalAvif,
            GetFilePaths(n, l).artOnlyWebp, GetFilePaths(n, l).artOnlyAvif,
            GetFilePaths(n, l).artAndNameWebp, GetFilePaths(n, l).artAndNameAvif }
          : n \in CardNums, l \in LanguageSet }

\* temp-downloads/<set>-<cardNumber>-temp.<extension>, where core/download
\* puts what it fetched
TempDownload(cardNum) == Path("temp-downloads", "original", cardNum, "webp", "-temp")

TempPaths ==
  { TempOf(p, "_temp") : p \in { q \in ArtifactPaths : q.kind = "original" } }
  \cup { TempOf(p, s) : p \in { q \in ArtifactPaths : q.kind # "original" /\ q.ext = "webp" },
                        s \in { "_temp_dest", "_top", "_bottom" } }
  \cup { TempOf(p, s) : p \in { q \in ArtifactPaths : q.kind # "original" /\ q.ext = "avif" },
                        s \in { "_top", "_bottom" } }
  \cup { TempDownload(n) : n \in CardNums }

AllPaths == ArtifactPaths \cup TempPaths

GetExpectedDimensions(type) ==
  CASE type = "original" -> [width |-> 734, height |-> 1024]
    [] type = "art_only" -> [width |-> 734, height |-> 603]
    [] type = "art_and_name" -> [width |-> 734, height |-> 767]
    [] OTHER -> [width |-> 734, height |-> 1024]

CheckFileExists(files, p) == files[p].st # "absent"

Abs(x) == IF x < 0 THEN -x ELSE x

(***************************************************************************)
(* validateCard: the issue list of one card, computed from the files.      *)
(* sharp(path).metadata() rejects on an unreadable file; validateCard has  *)
(* no try/catch, so the rejection leaves validateCard (Threw).             *)
(***************************************************************************)
Issue(step, path, language) == [step |-> step, path |-> path, language |-> language]

\* mutant: every language counts as the first
IsFirstLanguageAlways(language) == TRUE

IsFirstLanguage(language) == language = languages[1]

\* Step 2: exact comparison with the expected dimensions of the original
OriginalDimensionIssues(files, paths, language) ==
  LET metadata == files[paths.originalWebp]
      expected == GetExpectedDimensions("original")
  IN IF metadata.w # expected.width \/ metadata.h # expected.height
       THEN << Issue(RESIZE_ORIGINAL, paths.originalWebp, language) >>
       ELSE << >>

\* mutant: the AVIF of the original is never looked at
OriginalAvifIssuesSkipped(files, paths, language) == << >>

\* mutant: the AVIF of the original is looked at only when no resize is reported
OriginalAvifIssuesGated(files, paths, language) ==
  IF OriginalDimensionIssues(files, paths, language) = << >>
       /\ ~CheckFileExists(files, paths.originalAvif)
    THEN << Issue(CONVERT_ORIGINAL, paths.originalAvif, language) >>
    ELSE << >>

\* Step 3
OriginalAvifIssues(files, paths, language) ==
  IF ~CheckFileExists(files, paths.originalAvif)
    THEN << Issue(CONVERT_ORIGINAL, paths.originalAvif, language) >>
    ELSE << >>

\* mutant: a variant of full height is reported for a resize
VariantIssuesResizing(files, webp, avif, cropStep, convertStep, language) ==
  (IF ~CheckFileExists(files, webp)
     THEN << Issue(cropStep, webp, language) >>
     ELSE IF files[webp].h = 1024
            THEN << Issue(RESIZE_ORIGINAL, webp, language) >>
            ELSE << >>)
  \o
  (IF ~CheckFileExists(files, avif)
     THEN << Issue(convertStep, avif, language) >>
     ELSE << >>)

\* mutant: a variant of an unexpected height is reported for a crop
VariantIssuesRecropping(files, webp, avif, cropStep, convertStep, language) ==
  (IF ~CheckFileExists(files, webp)
     THEN << Issue(cropStep, webp, language) >>
     ELSE IF files[webp].h = 1024
               \/ Abs(files[webp].h - GetExpectedDimensions(webp.kind).height) > tolerancePx
            THEN << Issue(cropStep, webp, language) >>
            ELSE << >>)
  \o
  (IF ~CheckFileExists(files, avif)
     THEN << Issue(convertStep, avif, language) >>
     ELSE << >>)

\* Steps 4 and 5 share their shape: crop issue if the WebP is missing or has
\* the full height 1024, warning only for another unexpected height, then
\* the check that the AVIF exists.
VariantIssues(files, webp, avif, cropStep, convertStep, language) ==
  (IF ~CheckFileExists(files, webp)
     THEN << Issue(cropStep, webp, language) >>
     ELSE IF files[webp].h = 1024
            THEN << Issue(cropStep, webp, language) >>
            ELSE << >>)
  \o
  (IF ~CheckFileExists(files, avif)
     THEN << Issue(convertStep, avif, language) >>
     ELSE << >>)

ArtOnlyChecked(cfg, language) == ~cfg.skipVariants /\ IsFirstLanguage(language)
\* mutant: art_and_name is looked at for the first language only
ArtAndNameCheckedFirstOnly(cfg, language) == ~cfg.skipVariants /\ IsFirstLanguage(language)

ArtAndNameChecked(cfg, language) == ~cfg.skipVariants

\* the metadata() calls validateCard makes, in order; it throws at the first
\* unreadable file
Threw(files, cfg, cardNum, language) ==
  LET paths == GetFilePaths(cardNum, language)
  IN /\ CheckFileExists(files, paths.originalWebp)
     /\ \/ files[paths.originalWebp].st = "corrupt"
        \/ /\ ArtOnlyChecked(cfg, language)
           /\ files[paths.artOnlyWebp].st = "corrupt"
        \/ /\ ArtAndNameChecked(cfg, language)
           /\ files[paths.artAndNameWebp].st = "corrupt"

\* mutant: a missing original does not end the checks
ValidateCardCheckingOn(files, cfg, cardNum, language) ==
  LET paths == GetFilePaths(cardNum, language)
  IN (IF ~CheckFileExists(files, paths.originalWebp)
        THEN << Issue(DOWNLOAD, paths.originalWebp, language) >>
        ELSE OriginalDimensionIssues(files, paths, language))
     \o OriginalAvifIssues(files, paths, language)
     \o (IF ArtAndNameChecked(cfg, language)
           THEN VariantIssues(files, paths.artAndNameWebp, paths.artAndNameAvif,
                              CROP_ART_AND_NAME, CONVERT_ART_AND_NAME, language)
           ELSE << >>)

ValidateCard(files, cfg, cardNum, language) ==
  LET paths == GetFilePaths(cardNum, language)
  IN IF ~CheckFileExists(files, paths.originalWebp)
       THEN << Issue(DOWNLOAD, paths.originalWebp, language) >>
       ELSE OriginalDimensionIssues(files, paths, language)
            \o OriginalAvifIssues(files, paths, language)
            \o (IF ArtOnlyChecked(cfg, language)
                  THEN VariantIssues(files, paths.artOnlyWebp, paths.artOnlyAvif,
                                     CROP_ART_ONLY, CONVERT_ART_ONLY, "shared")
                  ELSE << >>)
            \o (IF ArtAndNameChecked(cfg, language)
                  THEN VariantIssues(files, paths.artAndNameWebp, paths.artAndNameAvif,
                                     CROP_ART_AND_NAME, CONVERT_ART_AND_NAME, language)
                  ELSE << >>)

\* this.log(..., 'WARN'): what validateCard pushes to this.warnings.  Every
\* issue is pushed with a warning; a variant whose height is neither 1024 nor
\* within tolerancePx of the expected height gets a warning and no issue.
Warn(msg, path) == [msg |-> msg, path |-> path]

OriginalWarnings(files, paths) ==
  (IF OriginalDimensionIssues(files, paths, "") # << >>
     THEN << Warn("wrong dimensions", paths.originalWebp) >> ELSE << >>)
  \o
  (IF OriginalAvifIssues(files, paths, "") # << >>
     THEN << Warn("missing", paths.originalAvif) >> ELSE << >>)

\* mutant: the tolerance test is >= instead of >
VariantWarningsStrict(files, webp, avif, type) ==
  (IF ~CheckFileExists(files, webp)
     THEN << Warn("missing", webp) >>
     ELSE IF files[webp].h = 1024
            THEN << Warn("uncropped", webp) >>
            ELSE IF Abs(files[webp].h - GetExpectedDimensions(type).height) >= tolerancePx
                   THEN << Warn("unexpected dimensions", webp) >>
                   ELSE << >>)
  \o
  (IF ~CheckFileExists(files, avif)
     THEN << Warn("missing", avif) >>
     ELSE << >>)

VariantWarnings(files, webp, avif, type) ==
  (IF ~CheckFileExists(files, webp)
     THEN << Warn("missing", webp) >>
     ELSE IF files[webp].h = 1024
            THEN << Warn("uncropped", webp) >>
            ELSE IF Abs(files[webp].h - GetExpectedDimensions(type).height) > tolerancePx
                   THEN << Warn("unexpected dimensions", webp) >>
                   ELSE << >>)
  \o
  (IF ~CheckFileExists(files, avif)
     THEN << Warn("missing", avif) >>
     ELSE << >>)

\* the warnings of one validateCard call, up to the metadata() call that
\* rejects if one does
ValidateWarnings(files, cfg, cardNum, language) ==
  LET paths == GetFilePaths(cardNum, language)
      artOnlyThrew == ArtOnlyChecked(cfg, language)
                        /\ files[paths.artOnlyWebp].st = "corrupt"
      artAndNameThrew == ArtAndNameChecked(cfg, language)
                           /\ files[paths.artAndNameWebp].st = "corrupt"
  IN IF ~CheckFileExists(files, paths.originalWebp)
       THEN << Warn("missing", paths.originalWebp) >>
       ELSE IF files[paths.originalWebp].st = "corrupt" THEN << >>
       ELSE OriginalWarnings(files, paths)
            \o (IF ArtOnlyChecked(cfg, language) /\ ~artOnlyThrew
                  THEN VariantWarnings(files, paths.artOnlyWebp, paths.artOnlyAvif,
                                       "art_only")
                  ELSE << >>)
            \o (IF ArtAndNameChecked(cfg, language) /\ ~artOnlyThrew /\ ~artAndNameThrew
                  THEN VariantWarnings(files, paths.artAndNameWebp,
                                       paths.artAndNameAvif, "art_and_name")
                  ELSE << >>)

(***************************************************************************)
(* Fix operations.  Each returns the files after the call and how the      *)
(* promise settled: "resolved", "rejected" (an error the caller can        *)
(* catch) or "uncaught" (an 'error' event emitted on an object with no     *)
(* listener, which Node.js rethrows outside every try/catch).  o is the    *)
(* behaviour of the environment during the call; log is what the call      *)
(* pushes to this.fixes.                                                   *)
(***************************************************************************)
Fix(msg, path) == [msg |-> msg, path |-> path]
Settled(files, result, log) == [files |-> files, result |-> result, log |-> log]

Remove(files, paths) ==
  [p \in DOMAIN files |-> IF p \in paths THEN Absent ELSE files[p]]

\* mutant: the body of every response is piped to the destination
DownloadImageAnyStatus(files, cardNum, language, o) ==
  LET destination == Path(language, "original", cardNum, "webp", "")
      started == << Fix("Downloading", destination) >>
  IN CASE o = "200_734x1024" ->
            Settled([files EXCEPT ![destination] = Image(734, 1024)], "resolved",
                    started \o << Fix("Downloaded", destination) >>)
       [] o = "200_674x940" ->
            Settled([files EXCEPT ![destination] = Image(674, 940)], "resolved",
                    started \o << Fix("Downloaded", destination) >>)
       [] o \in { "404", "503" } ->
            Settled([files EXCEPT ![destination] = Corrupt], "rejected", started)
       [] OTHER -> Settled(files, "uncaught", started)

\* https.get(url, callback): status 200 pipes the body to the destination;
\* another status rejects; a request error has no 'error' listener.
DownloadImage(files, cardNum, language, o) ==
  LET destination == Path(language, "original", cardNum, "webp", "")
      started == << Fix("Downloading", destination) >>
  IN CASE o = "200_734x1024" ->
            Settled([files EXCEPT ![destination] = Image(734, 1024)], "resolved",
                    started \o << Fix("Downloaded", destination) >>)
       [] o = "200_674x940" ->
            Settled([files EXCEPT ![destination] = Image(674, 940)], "resolved",
                    started \o << Fix("Downloaded", destination) >>)
       [] o \in { "404", "503" } -> Settled(files, "rejected", started)
       [] OTHER -> Settled(files, "uncaught", started)

\* copy to _temp, sharp(temp).resize(fill).toFile(filePath), unlink temp;
\* nothing removes the copy when sharp rejects
ResizeImage(files, filePath, dimensions, o) ==
  LET tempFile == TempOf(filePath, "_temp")
      started == << Fix("Resizing", filePath) >>
      copied == [files EXCEPT ![tempFile] = files[filePath]]
  IN IF ~CheckFileExists(files, filePath)
       THEN Settled(files, "rejected", started)
       ELSE IF copied[tempFile].st # "image" \/ o = "fail"
              THEN Settled(copied, "rejected", started)
              ELSE Settled([copied EXCEPT ![filePath] = Image(dimensions.width, dimensions.height),
                                          ![tempFile] = Absent],
                           "resolved", started \o << Fix("Resized", filePath) >>)

\* mutant: the output is written over the source
ConvertToAvifOverSource(files, webpPath, avifPath, o) ==
  LET started == << Fix("Converting", avifPath) >>
  IN IF files[webpPath].st # "image" \/ o = "fail"
       THEN Settled(files, "rejected", started)
       ELSE Settled([files EXCEPT ![webpPath] = files[webpPath]], "resolved",
                    started \o << Fix("Created", avifPath) >>)

\* sharp(webpPath).avif().toFile(avifPath): the AVIF has the size of its source
ConvertToAvif(files, webpPath, avifPath, o) ==
  LET started == << Fix("Converting", avifPath) >>
  IN IF files[webpPath].st # "image" \/ o = "fail"
       THEN Settled(files, "rejected", started)
       ELSE Settled([files EXCEPT ![avifPath] = files[webpPath]], "resolved",
                    started \o << Fix("Created", avifPath) >>)


(***************************************************************************)
(* The core modules: validate (validateCard with cropped variants),        *)
(* download (downloadCard), transform (transformCard), crop (cropCard)     *)
(* and fix (fixCard).  An operation works on a disk: the files, and the    *)
(* set of paths written so far.                                            *)
(***************************************************************************)
Disk(files, written) == [files |-> files, written |-> written]
WriteFile(d, p, content) ==
  Disk([d.files EXCEPT ![p] = content], d.written \cup { p })
Unlink(d, paths) == Disk(Remove(d.files, paths), d.written)

\* validateImage / validateImageWithDimensions: undefined for a file that
\* is not there, else valid iff readable with exactly the expected size
ValidateImageWithDimensions(files, p, width, height) ==
  [exists |-> CheckFileExists(files, p),
   valid |-> files[p].st = "image" /\ files[p].w = width /\ files[p].h = height]

\* validateCroppedVariant and the full-card part of validateCard
ValidatePair(files, webp, avif, width, height) ==
  LET webpResult == ValidateImageWithDimensions(files, webp, width, height)
      avifResult == ValidateImageWithDimensions(files, avif, width, height)
      hasBothFormats == webpResult.exists /\ avifResult.exists
  IN [webp |-> webpResult, avif |-> avifResult, hasBothFormats |-> hasBothFormats,
      isValid |-> hasBothFormats /\ webpResult.valid /\ avifResult.valid]

\* validateCard(setDir, cardNumber, rootFolder, set, language)
CoreValidateCard(files, cardNum, language) ==
  LET paths == GetFilePaths(cardNum, language)
      full == ValidatePair(files, paths.originalWebp, paths.originalAvif, 734, 1024)
  IN [cardNumber |-> cardNum,
      webp |-> full.webp, avif |-> full.avif,
      hasBothFormats |-> full.hasBothFormats, isValid |-> full.isValid,
      artOnly |-> ValidatePair(files, paths.artOnlyWebp, paths.artOnlyAvif, 734, 603),
      artAndName |-> ValidatePair(files, paths.artAndNameWebp, paths.artAndNameAvif,
                                  734, 767)]

\* downloadCard(card, rootFolder, false): Ravensburger first, Lorcast as the
\* fallback; each fetches into temp-downloads.  A request that fails before
\* any response is not handled (downloadFile has no 'error' listener).
DownloadCard(d, cardNum, ravensburg, lorcast) ==
  LET tempFilePath == TempDownload(cardNum)
      fetched == [disk |-> WriteFile(d, tempFilePath, Image(674, 940)),
                  success |-> TRUE, crashed |-> FALSE]
      notFound == [disk |-> d, success |-> FALSE, crashed |-> FALSE]
      crashed == [disk |-> d, success |-> FALSE, crashed |-> TRUE]
  IN CASE ravensburg = "200" -> fetched
       [] ravensburg = "request_error" -> crashed
       [] lorcast = "200" -> fetched
       [] lorcast = "request_error" -> crashed
       [] OTHER -> notFound

\* transformImage: resize to 734x1024 into <n>.webp, then into <n>.avif;
\* sharp refuses an output that is its own input; any error is caught
TransformImage(d, inputPath, webpPath, avifPath, o) ==
  LET failed(disk) == [disk |-> disk, success |-> FALSE]
      withWebp == WriteFile(d, webpPath, Image(734, 1024))
  IN CASE d.files[inputPath].st # "image" -> failed(d)
       [] inputPath = webpPath \/ o = "fail_webp" -> failed(d)
       [] inputPath = avifPath \/ o = "fail_avif" -> failed(withWebp)
       [] OTHER -> [disk |-> WriteFile(withWebp, avifPath, Image(734, 1024)),
                    success |-> TRUE]

\* mutant: the first fraction of the crop is rounded up
CeilTopEndHeight(height, artOnly) ==
  (height * (IF artOnly THEN 520 ELSE 674) + 999) \div 1000

\* Math.floor(metadata.height * fraction), the fractions in thousandths
TopEndHeight(height, artOnly) == (height * (IF artOnly THEN 520 ELSE 674)) \div 1000
BottomStartHeight(height, artOnly) == (height * (IF artOnly THEN 931 ELSE 925)) \div 1000

\* mutant: the catch block cleans up what the success path cleans up
CropCleanupPathsTopBottom(destinationFile) ==
  { TempOf(destinationFile, "_top"), TempOf(destinationFile, "_bottom") }

\* the catch block: unlink whichever of the three temporaries exists
CropCleanupPaths(destinationFile) ==
  { TempOf(destinationFile, "_temp_dest"), TempOf(destinationFile, "_top"),
    TempOf(destinationFile, "_bottom") }

\* mutant: the source is only required to be readable
CropSourceOkAnySize(metadata) == metadata.st = "image"

\* the source check at the head of the try block
CropSourceOk(metadata) == metadata.st = "image" /\ metadata.w = 734 /\ metadata.h = 1024

\* the check of the joined image before the rename
CropResultOk(resultMeta, expectedHeight) ==
  resultMeta.st = "image" /\ resultMeta.w = 734 /\ resultMeta.h = expectedHeight

CropImage(files, sourceFile, destinationFile, artOnly, o) ==
  LET tempDestination == TempOf(destinationFile, "_temp_dest")
      topFile == TempOf(destinationFile, "_top")
      bottomFile == TempOf(destinationFile, "_bottom")
      started == << Fix("Cropping", destinationFile) >>
      metadata == files[sourceFile]
      topEndHeight == TopEndHeight(metadata.h, artOnly)
      bottomStartHeight == BottomStartHeight(metadata.h, artOnly)
      bottomEndHeight == metadata.h
      expectedHeight == topEndHeight + (bottomEndHeight - bottomStartHeight)
      \* a write that fails part-way leaves an unreadable file behind
      afterTop == [files EXCEPT ![topFile] =
                     IF o = "fail_top" THEN Corrupt ELSE Image(metadata.w, topEndHeight)]
      afterBottom == [afterTop EXCEPT ![bottomFile] =
                     IF o = "fail_bottom" THEN Corrupt
                     ELSE Image(metadata.w, bottomEndHeight - bottomStartHeight)]
      joined == IF o = "bad_join"
                  THEN Image(metadata.w, afterBottom[topFile].h)
                  ELSE Image(metadata.w, afterBottom[topFile].h + afterBottom[bottomFile].h)
      afterJoin == [afterBottom EXCEPT ![tempDestination] =
                     IF o = "fail_join" THEN Corrupt ELSE joined]
      renamed == [afterJoin EXCEPT ![destinationFile] = afterJoin[tempDestination],
                                   ![tempDestination] = Absent]
      caught(partial) == Settled(Remove(partial, CropCleanupPaths(destinationFile)),
                                 "rejected", started)
  IN CASE ~CropSourceOk(metadata) -> caught(files)
       [] o = "fail_top" -> caught(afterTop)
       [] o = "fail_bottom" -> caught(afterBottom)
       [] o = "fail_join" -> caught(afterJoin)
       [] ~CropResultOk(afterJoin[tempDestination], expectedHeight) -> caught(afterJoin)
       [] OTHER -> Settled(Remove(renamed, {topFile, bottomFile}), "resolved",
                           started \o << Fix("Cropped", destinationFile) >>)

\* mutant: the resize is also applied to the shared art_only WebP
ResizeOriginalAndArtOnly(files, paths, o) ==
  LET dims == GetExpectedDimensions("original")
      first == ResizeImage(files, paths.originalWebp, dims,
                           IF o = "fail_webp" THEN "fail" ELSE "ok")
  IN IF first.result # "resolved" \/ ~CheckFileExists(first.files, paths.artOnlyWebp)
       THEN first
       ELSE Settled([first.files EXCEPT ![paths.artOnlyWebp] = Image(dims.width, dims.height)],
                    first.result, first.log)

\* mutant: only the WebP is resized
ResizeOriginalWebpOnly(files, paths, o) ==
  ResizeImage(files, paths.originalWebp, GetExpectedDimensions("original"),
              IF o = "fail_webp" THEN "fail" ELSE "ok")

\* case RESIZE_ORIGINAL: the WebP, then the AVIF if it exists
ResizeOriginal(files, paths, o) ==
  LET dims == GetExpectedDimensions("original")
      first == ResizeImage(files, paths.originalWebp, dims,
                           IF o = "fail_webp" THEN "fail" ELSE "ok")
      second == ResizeImage(first.files, paths.originalAvif, dims,
                            IF o = "fail_avif" THEN "fail" ELSE "ok")
  IN IF first.result # "resolved" THEN first
     ELSE IF ~CheckFileExists(first.files, paths.originalAvif) THEN first
     ELSE Settled(second.files, second.result, first.log \o second.log)

\* the switch of fixIssue
ApplyFix(files, issue, cardNum, language, o) ==
  LET paths == GetFilePaths(cardNum, language)
  IN CASE issue.step = DOWNLOAD -> DownloadImage(files, cardNum, language, o)
       [] issue.step = RESIZE_ORIGINAL -> ResizeOriginal(files, paths, o)
       [] issue.step = CONVERT_ORIGINAL ->
            ConvertToAvif(files, paths.originalWebp, paths.originalAvif, o)
       [] issue.step = CROP_ART_ONLY ->
            CropImage(files, paths.originalWebp, paths.artOnlyWebp, TRUE, o)
       [] issue.step = CONVERT_ART_ONLY ->
            ConvertToAvif(files, paths.artOnlyWebp, paths.artOnlyAvif, o)
       [] issue.step = CROP_ART_AND_NAME ->
            CropImage(files, paths.originalWebp, paths.artAndNameWebp, FALSE, o)
       [] issue.step = CONVERT_ART_AND_NAME ->
            ConvertToAvif(files, paths.artAndNameWebp, paths.artAndNameAvif, o)

\* What the environment can do during the fix of a step.  The CDN holds one
\* answer per card for the whole run (the image at one of two sizes, or 404);
\* served is that answer, "unknown" before the first request.  The other
\* outcomes are transient faults: a 503, a request that fails before any
\* response, a sharp or join-images call that fails.
CdnAnswers == { "200_734x1024", "200_674x940", "404" }

Outcomes(step, served) ==
  CASE step = DOWNLOAD ->
         (IF served = "unknown" THEN CdnAnswers ELSE { served })
         \cup { "503", "request_error" }
    [] step = RESIZE_ORIGINAL -> { "ok", "fail_webp", "fail_avif" }
    [] step \in { CROP_ART_ONLY, CROP_ART_AND_NAME } ->
         { "ok", "fail_top", "fail_bottom", "fail_join", "bad_join" }
    [] OTHER -> { "ok", "fail" }

IsFault(o) == o \notin { "ok" } \cup CdnAnswers

\* mutant: the order array lists the art_and_name steps before the art_only steps
\* and the conversion of the original last
OrderIndexMisplaced(step) ==
  CASE step = DOWNLOAD -> 0
    [] step = RESIZE_ORIGINAL -> 1
    [] step = CROP_ART_AND_NAME -> 2
    [] step = CONVERT_ART_AND_NAME -> 3
    [] step = CROP_ART_ONLY -> 4
    [] step = CONVERT_ART_ONLY -> 5
    [] step = CONVERT_ORIGINAL -> 6
    [] OTHER -> -1

\* sortIssuesByPipelineOrder: Array.prototype.sort (stable) on the index of
\* the step in the order array
OrderIndex(step) ==
  CASE step = DOWNLOAD -> 0
    [] step = RESIZE_ORIGINAL -> 1
    [] step = CONVERT_ORIGINAL -> 2
    [] step = CROP_ART_ONLY -> 3
    [] step = CONVERT_ART_ONLY -> 4
    [] step = CROP_ART_AND_NAME -> 5
    [] step = CONVERT_ART_AND_NAME -> 6
    [] OTHER -> -1

RECURSIVE InsertByOrder(_, _)
InsertByOrder(issue, sorted) ==
  IF sorted = << >> THEN << issue >>
  ELSE IF OrderIndex(issue.step) - OrderIndex(Head(sorted).step) < 0
         THEN << issue >> \o sorted
         ELSE << Head(sorted) >> \o InsertByOrder(issue, Tail(sorted))

RECURSIVE SortIssuesByPipelineOrder(_)
SortIssuesByPipelineOrder(issues) ==
  IF issues = << >> THEN << >>
  ELSE InsertByOrder(issues[Len(issues)],
                     SortIssuesByPipelineOrder(SubSeq(issues, 1, Len(issues) - 1)))

(***************************************************************************)
(* The core crop module and core/fix.                                      *)
(***************************************************************************)
\* cropImage of the crop module: no check of the source size, the joined
\* image goes straight to the destination, the two temporaries are removed
\* on both paths
CoreCropImage(d, sourceFile, destinationFile, artOnly, o) ==
  LET metadata == d.files[sourceFile]
      topHeight == TopEndHeight(metadata.h, artOnly)
      bottomStart == BottomStartHeight(metadata.h, artOnly)
      bottomHeight == metadata.h - bottomStart
  IN IF metadata.st # "image" \/ o = "fail"
       THEN [disk |-> d, thrown |-> TRUE]
       ELSE [disk |-> WriteFile(d, destinationFile, Image(metadata.w, topHeight + bottomHeight)),
             thrown |-> FALSE]

\* cropCard: the four crops in order, the first failure caught and returned
\* as success false; failing is 0 for no failure, else the crop that fails
CropCard(d, sourceWebpPath, sourceAvifPath, paths, failing) ==
  LET outcome(i) == IF failing = i THEN "fail" ELSE "ok"
      c1 == CoreCropImage(d, sourceWebpPath, paths.artOnlyWebp, TRUE, outcome(1))
      c2 == CoreCropImage(c1.disk, sourceAvifPath, paths.artOnlyAvif, TRUE, outcome(2))
      c3 == CoreCropImage(c2.disk, sourceWebpPath, paths.artAndNameWebp, FALSE, outcome(3))
      c4 == CoreCropImage(c3.disk, sourceAvifPath, paths.artAndNameAvif, FALSE, outcome(4))
  IN CASE ~CheckFileExists(d.files, sourceWebpPath)
            \/ ~CheckFileExists(d.files, sourceAvifPath) -> [disk |-> d, success |-> FALSE]
       [] c1.thrown -> [disk |-> c1.disk, success |-> FALSE]
       [] c2.thrown -> [disk |-> c2.disk, success |-> FALSE]
       [] c3.thrown -> [disk |-> c3.disk, success |-> FALSE]
       [] c4.thrown -> [disk |-> c4.disk, success |-> FALSE]
       [] OTHER -> [disk |-> c4.disk, success |-> TRUE]

\* generateCroppedVariants: false without both source files, true with
\* nothing done when both pairs exist, else cropCard, whose result is not
\* looked at
GenerateCroppedVariants(d, cardNum, language, failing) ==
  LET paths == GetFilePaths(cardNum, language)
      artOnlyExists == CheckFileExists(d.files, paths.artOnlyWebp)
                         /\ CheckFileExists(d.files, paths.artOnlyAvif)
      artAndNameExists == CheckFileExists(d.files, paths.artAndNameWebp)
                            /\ CheckFileExists(d.files, paths.artAndNameAvif)
  IN CASE ~CheckFileExists(d.files, paths.originalWebp)
            \/ ~CheckFileExists(d.files, paths.originalAvif) -> [disk |-> d, value |-> FALSE]
       [] artOnlyExists /\ artAndNameExists -> [disk |-> d, value |-> TRUE]
       [] OTHER -> [disk |-> CropCard(d, paths.originalWebp, paths.originalAvif,
                                      paths, failing).disk,
                    value |-> TRUE]

FixResult(success, action, croppedVariants) ==
  [success |-> success, action |-> action, croppedVariants |-> croppedVariants]

Fixed(d, result, calls) == [disk |-> d, result |-> result, crashed |-> FALSE, calls |-> calls]

\* Cases 1 and 3 of fixCard: download, transform, cleanupSource, crop
DownloadAndTransform(d, c, language, ravensburg, lorcast, to, failing) ==
  LET paths == GetFilePaths(c.cardNumber, language)
      downloadResult == DownloadCard(d, c.cardNumber, ravensburg, lorcast)
      transformResult == TransformImage(downloadResult.disk, TempDownload(c.cardNumber),
                                        paths.originalWebp, paths.originalAvif, to)
      cleaned == Unlink(transformResult.disk, { TempDownload(c.cardNumber) })
      cropped == GenerateCroppedVariants(cleaned, c.cardNumber, language, failing)
  IN CASE downloadResult.crashed ->
            [disk |-> d, result |-> FixResult(FALSE, "none", FALSE), crashed |-> TRUE,
             calls |-> << "download" >>]
       [] ~downloadResult.success ->
            Fixed(d, FixResult(FALSE, "failed", FALSE), << "download" >>)
       [] ~transformResult.success ->
            Fixed(cleaned, FixResult(FALSE, "failed", FALSE), << "download", "transform" >>)
       [] OTHER ->
            Fixed(cropped.disk, FixResult(TRUE, "downloaded", TRUE),
                  << "download", "transform", "crop" >>)

NeedsCropping(c) == ~c.artOnly.isValid \/ ~c.artAndName.isValid

\* Case 2 of fixCard: transform from the one file that exists
TransformExisting(d, c, language, to, failing) ==
  LET paths == GetFilePaths(c.cardNumber, language)
      existingFile == IF c.webp.exists THEN paths.originalWebp ELSE paths.originalAvif
      transformResult == TransformImage(d, existingFile, paths.originalWebp,
                                        paths.originalAvif, to)
      cropped == GenerateCroppedVariants(transformResult.disk, c.cardNumber, language, failing)
  IN CASE ~transformResult.success ->
            Fixed(transformResult.disk, FixResult(FALSE, "failed", FALSE), << "transform" >>)
       [] NeedsCropping(c) ->
            Fixed(cropped.disk, FixResult(TRUE, "transformed", TRUE), << "transform", "crop" >>)
       [] OTHER ->
            Fixed(transformResult.disk, FixResult(TRUE, "transformed", FALSE), << "transform" >>)

\* Case 4 of fixCard and the final return
CropOnly(d, c, language, failing) ==
  LET cropResult == GenerateCroppedVariants(d, c.cardNumber, language, failing)
  IN CASE ~NeedsCropping(c) -> Fixed(d, FixResult(TRUE, "skipped", FALSE), << >>)
       [] ~cropResult.value ->
            Fixed(cropResult.disk, FixResult(FALSE, "failed", FALSE), << "crop" >>)
       [] OTHER -> Fixed(cropResult.disk, FixResult(TRUE, "cropped", TRUE), << "crop" >>)

FixCard(d, c, language, ravensburg, lorcast, to, failing) ==
  CASE ~c.webp.exists /\ ~c.avif.exists ->
         DownloadAndTransform(d, c, language, ravensburg, lorcast, to, failing)
    [] ~c.webp.exists \/ ~c.avif.exists ->
         TransformExisting(d, c, language, to, failing)
    [] (c.webp.exists /\ ~c.webp.valid) \/ (c.avif.exists /\ ~c.avif.valid) ->
         DownloadAndTransform(d, c, language, ravensburg, lorcast, to, failing)
    [] OTHER -> CropOnly(d, c, language, failing)

(***************************************************************************)
(* downloadImage with downloadSource "all" (the second version of the      *)
(* script): the sources are tried in order.  A source either has no entry  *)
(* for the card (downloadFromSource throws before any request), answers    *)
(* 404, answers 200, or the request fails before any response (no 'error'  *)
(* listener on the request).  A lorcast download is an AVIF that is then    *)
(* converted to the WebP.                                                  *)
(***************************************************************************)
sources == << "ravensburg", "dreamborn", "lorcast" >>
SourceSet == { sources[i] : i \in 1..Len(sources) }
SourceAnswers == { "no_entry", "404", "200", "request_error" }

FixFrom(msg, path, source) == [msg |-> msg, path |-> path, source |-> source]

DownloadFromSource(files, source, cardNum, language, o) ==
  LET webp == Path(language, "original", cardNum, "webp", "")
      avif == Path(language, "original", cardNum, "avif", "")
      destination == IF source = "lorcast" THEN avif ELSE webp
      trying == << FixFrom("Trying", destination, source) >>
      written == [files EXCEPT ![destination] = Image(734, 1024)]
  IN CASE o = "no_entry" -> Settled(files, "rejected", << >>)
       [] o = "404" -> Settled(files, "rejected", trying)
       [] o = "200" ->
            IF source = "lorcast"
              THEN Settled([written EXCEPT ![webp] = Image(734, 1024)], "resolved",
                           trying \o << FixFrom("Downloaded", destination, source),
                                        FixFrom("Converted", webp, source) >>)
              ELSE Settled(written, "resolved",
                           trying \o << FixFrom("Downloaded", destination, source) >>)
       [] OTHER -> Settled(files, "uncaught", trying)


(***************************************************************************)
(* State.                                                                  *)
(***************************************************************************)
VARIABLES
  fs,               \* the files under rootFolder
  config,           \* CONFIG.autoFix and CONFIG.skipVariants
  stats,            \* this.stats
  errors,           \* this.errors: the "Failed to fix" entries of fixIssue
  fixes,            \* this.fixes: the entries of the file operations
  warnings,         \* this.warnings: the entries of validateCard
  pc,               \* position in main / validateAndFixAll
  exitCode,         \* argument of process.exit, -1 while the process runs
  li,               \* phase 1: index of the language in config.languages
  cardNum,          \* phase 1: loop variable cardNum
  allIssues,        \* allIssues
  ai,               \* phase 2: index of the entry of allIssues being fixed
  remainingIssues,  \* remainingIssues, as validateCard returned it
  attempt,          \* attempt
  sortedIssues,     \* sortedIssues of the current pass
  ii,               \* index of the next issue of sortedIssues
  invoked,          \* steps fixIssue was called with in the current pass
  lastClean,        \* per card: the last validateCard of this run returned []
  faults,           \* transient environment faults so far
  cdn,              \* per card: what the CDN answers for it, once asked
  run,              \* 1 for the first run, 2 for a run that follows it
  fs0,              \* the files when the current run started
  providers,        \* downloadSource "all": how each source behaves when asked
  sourceIndex,      \* downloadSource "all": index of the source being tried
  validation,       \* core: the CardValidation handed to fixCard
  fixResult,        \* core: the FixResult (or CropResult) returned
  written,          \* core: the paths the last operation wrote
  setDir,           \* cleanup: the directory, whether it exists and its entries
  dirFiles,         \* cleanup: what readdirSync returned
  fileIndex,        \* cleanup: position of the loop over dirFiles
  cleanupStats      \* cleanup: the { deleted, skipped } counters

vars == << fs, config, stats, errors, fixes, warnings, pc, exitCode, li, cardNum, allIssues,
           ai, remainingIssues, attempt, sortedIssues, ii, invoked, lastClean,
           faults, cdn, run, fs0, providers, sourceIndex, validation, fixResult, written,
           setDir, dirFiles, fileIndex, cleanupStats >>

downloadVars == << providers, sourceIndex >>
coreVars == << validation, fixResult, written >>
cleanupVars == << setDir, dirFiles, fileIndex, cleanupStats >>

CardKeys == LanguageSet \X CardNums

\* the constructor
InitialStats ==
  [ checked |-> 0, missing |-> 0, recovered |-> 0, failed |-> 0, skipped |-> 0,
    byLanguage |-> [l \in LanguageSet |->
       [checked |-> 0, missing |-> 0, recovered |-> 0, failed |-> 0, skipped |-> 0]] ]

\* the tail of validateCard: checked++, and missing++ when there are issues
CountValidation(s, language, issues) ==
  LET m == IF Len(issues) > 0 THEN 1 ELSE 0
  IN [s EXCEPT !.checked = @ + 1,
               !.byLanguage[language].checked = @ + 1,
               !.missing = @ + m,
               !.byLanguage[language].missing = @ + m]

\* the tail of fixIssue
CountFix(s, language, ok) ==
  IF ok THEN [s EXCEPT !.recovered = @ + 1, !.byLanguage[language].recovered = @ + 1]
        ELSE [s EXCEPT !.failed = @ + 1, !.byLanguage[language].failed = @ + 1]

(***************************************************************************)
(* Initial files: every (language, card) starts in one of the states of    *)
(* CardStates and every shared art_only pair in one of ArtOnlyStates; no   *)
(* temporary file exists.                                                  *)
(***************************************************************************)
CardState(ow, oa, nw, na) == [ow |-> ow, oa |-> oa, nw |-> nw, na |-> na]

CardStates ==
  { \* nothing on disk yet
    CardState(Absent, Absent, Absent, Absent),
    \* complete
    CardState(Image(734, 1024), Image(734, 1024), Image(734, 767), Image(734, 767)),
    \* downloaded, variant copied uncropped, nothing converted
    CardState(Image(734, 1024), Absent, Image(734, 1024), Absent),
    \* downloaded at the size of another CDN
    CardState(Image(674, 940), Absent, Absent, Absent),
    \* wrong size in both formats, variants cropped
    CardState(Image(674, 940), Image(674, 940), Image(734, 767), Image(734, 767)),
    \* original one pixel too tall, nothing else yet
    CardState(Image(734, 1025), Absent, Absent, Absent),
    \* variant of an unexpected height
    CardState(Image(734, 1024), Image(734, 1024), Image(734, 770), Image(734, 770)),
    \* original lost, uncropped variant left
    CardState(Absent, Absent, Image(734, 1024), Image(734, 1024)),
    \* unreadable original
    CardState(Corrupt, Absent, Absent, Absent),
    \* original lost, unreadable variant left
    CardState(Absent, Absent, Corrupt, Absent) }

ArtOnlyState(aw, aa) == [aw |-> aw, aa |-> aa]

ArtOnlyStates ==
  { ArtOnlyState(Absent, Absent),
    ArtOnlyState(Image(734, 603), Image(734, 603)),
    ArtOnlyState(Image(734, 1024), Absent),
    ArtOnlyState(Image(734, 606), Image(734, 606)) }

FilesOf(cards, shared) ==
  [p \in AllPaths |->
     IF p.tmp # "" THEN Absent
     ELSE IF p.kind = "art_only"
       THEN (IF p.ext = "webp" THEN shared[p.n].aw ELSE shared[p.n].aa)
     ELSE IF p.kind = "original"
       THEN (IF p.ext = "webp" THEN cards[<<p.dir, p.n>>].ow ELSE cards[<<p.dir, p.n>>].oa)
     ELSE (IF p.ext = "webp" THEN cards[<<p.dir, p.n>>].nw ELSE cards[<<p.dir, p.n>>].na)]

\* the state of a process that has just constructed its validator
Started(files, cfg, r) ==
  /\ fs = files
  /\ fs0 = files
  /\ config = cfg
  /\ run = r
  /\ stats = InitialStats
  /\ errors = << >>
  /\ fixes = << >>
  /\ warnings = << >>
  /\ pc = "phase1"
  /\ exitCode = -1
  /\ li = 1
  /\ cardNum = cardRange.start
  /\ allIssues = << >>
  /\ ai = 0
  /\ remainingIssues = << >>
  /\ attempt = 0
  /\ sortedIssues = << >>
  /\ ii = 0
  /\ invoked = << >>
  /\ lastClean = [k \in CardKeys |-> FALSE]
  /\ faults = 0
  /\ cdn = [k \in CardKeys |-> "unknown"]
  /\ providers = << >>
  /\ sourceIndex = 0
  /\ validation = << >>
  /\ fixResult = FixResult(FALSE, "none", FALSE)
  /\ written = { }
  /\ setDir = [exists |-> FALSE, entries |-> << >>]
  /\ dirFiles = << >>
  /\ fileIndex = 0
  /\ cleanupStats = [deleted |-> 0, skipped |-> 0]

Init ==
  \E cards \in [CardKeys -> CardStates], shared \in [CardNums -> ArtOnlyStates],
     autoFix \in BOOLEAN, skipVariants \in BOOLEAN :
       Started(FilesOf(cards, shared),
               [autoFix |-> autoFix, skipVariants |-> skipVariants], 1)

(***************************************************************************)
(* main and validateAndFixAll.                                             *)
(***************************************************************************)
\* a rejection that leaves validateAndFixAll: main's catch calls process.exit(1)
Fatal ==
  /\ pc' = "fatal"
  /\ exitCode' = 1

\* mutant: the dry-run return is missing
ReturnsAfterPhase1IfComplete(all, cfg) == Len(all) = 0

\* if (allIssues.length === 0) return ...; if (!this.config.autoFix) return ...
ReturnsAfterPhase1(all, cfg) == Len(all) = 0 \/ ~cfg.autoFix

\* mutant: the attempt test off by one
LoopContinuesOneMore(remaining, att) == Len(remaining) > 0 /\ att <= maxAttempts

\* while (remainingIssues.length > 0 && attempt < maxAttempts)
LoopContinues(remaining, att) == Len(remaining) > 0 /\ att < maxAttempts

\* Phase 1: one validateCard call of the double loop over languages and cards
Phase1Validate ==
  /\ pc = "phase1"
  /\ warnings' = warnings \o ValidateWarnings(fs, config, cardNum, languages[li])
  /\ LET language == languages[li]
         issues == ValidateCard(fs, config, cardNum, language)
     IN IF Threw(fs, config, cardNum, language)
          THEN /\ Fatal
               /\ UNCHANGED << stats, allIssues, lastClean, li, cardNum >>
          ELSE /\ stats' = CountValidation(stats, language, issues)
               /\ lastClean' = [lastClean EXCEPT ![<<language, cardNum>>] = (issues = << >>)]
               /\ allIssues' = IF Len(issues) > 0
                                 THEN Append(allIssues, [cardNum |-> cardNum,
                                                         language |-> language,
                                                         issues |-> issues])
                                 ELSE allIssues
               /\ IF cardNum < cardRange.end
                    THEN /\ cardNum' = cardNum + 1
                         /\ UNCHANGED << li, pc >>
                    ELSE IF li < Len(languages)
                      THEN /\ li' = li + 1
                           /\ cardNum' = cardRange.start
                           /\ pc' = pc
                      ELSE /\ pc' = "phase1_done"
                           /\ UNCHANGED << li, cardNum >>
               /\ UNCHANGED exitCode
  /\ UNCHANGED downloadVars
  /\ UNCHANGED coreVars
  /\ UNCHANGED cleanupVars
  /\ UNCHANGED << fs, config, errors, fixes, ai, remainingIssues, attempt,
                  sortedIssues, ii, invoked, faults, cdn, run, fs0 >>

\* the two early returns after phase 1
Phase1Done ==
  /\ pc = "phase1_done"
  /\ IF ReturnsAfterPhase1(allIssues, config)
       THEN pc' = "report" /\ UNCHANGED ai
       ELSE pc' = "next_card" /\ ai' = 1
  /\ UNCHANGED warnings
  /\ UNCHANGED downloadVars
  /\ UNCHANGED coreVars
  /\ UNCHANGED cleanupVars
  /\ UNCHANGED << fs, config, stats, errors, fixes, exitCode, li, cardNum, allIssues,
                  remainingIssues, attempt, sortedIssues, ii, invoked, lastClean,
                  faults, cdn, run, fs0 >>

\* Phase 2: for (const { cardNum, language, issues } of allIssues)
NextCard ==
  /\ pc = "next_card"
  /\ IF ai > Len(allIssues)
       THEN /\ pc' = "report"
            /\ UNCHANGED << remainingIssues, attempt >>
       ELSE /\ remainingIssues' = allIssues[ai].issues
            /\ attempt' = 0
            /\ pc' = "while"
  /\ UNCHANGED warnings
  /\ UNCHANGED downloadVars
  /\ UNCHANGED coreVars
  /\ UNCHANGED cleanupVars
  /\ UNCHANGED << fs, config, stats, errors, fixes, exitCode, li, cardNum, allIssues,
                  ai, sortedIssues, ii, invoked, lastClean, faults, cdn, run, fs0 >>

\* the loop test, then attempt++ and the sort (which works in place;
\* remainingIssues keeps validateCard's order here)
StartPass ==
  /\ pc = "while"
  /\ IF LoopContinues(remainingIssues, attempt)
       THEN /\ attempt' = attempt + 1
            /\ sortedIssues' = SortIssuesByPipelineOrder(remainingIssues)
            /\ ii' = 1
            /\ invoked' = << >>
            /\ pc' = "fix"
            /\ UNCHANGED ai
       ELSE /\ pc' = "next_card"
            /\ ai' = ai + 1
            /\ UNCHANGED << attempt, sortedIssues, ii, invoked >>
  /\ UNCHANGED warnings
  /\ UNCHANGED downloadVars
  /\ UNCHANGED coreVars
  /\ UNCHANGED cleanupVars
  /\ UNCHANGED << fs, config, stats, errors, fixes, exitCode, li, cardNum, allIssues,
                  remainingIssues, lastClean, faults, cdn, run, fs0 >>

\* await this.fixIssue(issue, cardNum, language)
FixIssue ==
  /\ pc = "fix"
  /\ ii <= Len(sortedIssues)
  /\ LET issue == sortedIssues[ii]
         card == allIssues[ai]
         key == << card.language, card.cardNum >>
     IN \E o \in Outcomes(issue.step, cdn[key]) :
          /\ IsFault(o) => faults < MaxFaults
          /\ faults' = IF IsFault(o) THEN faults + 1 ELSE faults
          /\ cdn' = IF o \in CdnAnswers THEN [cdn EXCEPT ![key] = o] ELSE cdn
          /\ LET r == ApplyFix(fs, issue, card.cardNum, card.language, o)
             IN /\ fs' = r.files
                /\ fixes' = fixes \o r.log
                /\ invoked' = Append(invoked, issue.step)
                /\ IF r.result = "uncaught"
                     THEN /\ pc' = "crashed"
                          /\ exitCode' = 1
                          /\ UNCHANGED << stats, errors, ii >>
                     ELSE /\ stats' = CountFix(stats, card.language, r.result = "resolved")
                          /\ errors' = IF r.result = "resolved" THEN errors
                                       ELSE Append(errors, [cardNum |-> card.cardNum,
                                                            language |-> card.language,
                                                            step |-> issue.step])
                          /\ ii' = ii + 1
                          /\ UNCHANGED << pc, exitCode >>
  /\ UNCHANGED warnings
  /\ UNCHANGED downloadVars
  /\ UNCHANGED coreVars
  /\ UNCHANGED cleanupVars
  /\ UNCHANGED << config, li, cardNum, allIssues, ai, remainingIssues, attempt,
                  sortedIssues, lastClean, run, fs0 >>

\* remainingIssues = await this.validateCard(cardNum, language); break if empty
Reverify ==
  /\ pc = "fix"
  /\ ii > Len(sortedIssues)
  /\ warnings' = warnings \o ValidateWarnings(fs, config, allIssues[ai].cardNum,
                                           allIssues[ai].language)
  /\ LET card == allIssues[ai]
         issues == ValidateCard(fs, config, card.cardNum, card.language)
     IN IF Threw(fs, config, card.cardNum, card.language)
          THEN /\ Fatal
               /\ UNCHANGED << stats, remainingIssues, lastClean, ai >>
          ELSE /\ stats' = CountValidation(stats, card.language, issues)
               /\ lastClean' = [lastClean EXCEPT ![<<card.language, card.cardNum>>] =
                                                    (issues = << >>)]
               /\ remainingIssues' = issues
               /\ IF Len(issues) = 0
                    THEN pc' = "next_card" /\ ai' = ai + 1
                    ELSE pc' = "while" /\ UNCHANGED ai
               /\ UNCHANGED exitCode
  /\ UNCHANGED downloadVars
  /\ UNCHANGED coreVars
  /\ UNCHANGED cleanupVars
  /\ UNCHANGED << fs, config, errors, fixes, li, cardNum, allIssues, attempt,
                  sortedIssues, ii, invoked, faults, cdn, run, fs0 >>

\* generateReport, then the exit code chosen by main
GenerateReport ==
  /\ pc = "report"
  /\ pc' = "done"
  /\ exitCode' = IF stats.failed > 0 THEN 1 ELSE 0
  /\ UNCHANGED warnings
  /\ UNCHANGED downloadVars
  /\ UNCHANGED coreVars
  /\ UNCHANGED cleanupVars
  /\ UNCHANGED << fs, config, stats, errors, fixes, li, cardNum, allIssues, ai,
                  remainingIssues, attempt, sortedIssues, ii, invoked, lastClean,
                  faults, cdn, run, fs0 >>

\* the script is started again on the files a run left in which the last
\* validation of every card found no issue
AllClean == \A k \in CardKeys : lastClean[k]

SecondRun ==
  /\ pc = "done"
  /\ run = 1
  /\ AllClean
  /\ run' = 2
  /\ fs0' = fs
  /\ stats' = InitialStats
  /\ errors' = << >>
  /\ fixes' = << >>
  /\ warnings' = << >>
  /\ pc' = "phase1"
  /\ exitCode' = -1
  /\ li' = 1
  /\ cardNum' = cardRange.start
  /\ allIssues' = << >>
  /\ ai' = 0
  /\ remainingIssues' = << >>
  /\ attempt' = 0
  /\ sortedIssues' = << >>
  /\ ii' = 0
  /\ invoked' = << >>
  /\ lastClean' = [k \in CardKeys |-> FALSE]
  /\ UNCHANGED downloadVars
  /\ UNCHANGED coreVars
  /\ UNCHANGED cleanupVars
  /\ UNCHANGED << fs, config, cdn, faults >>

Next ==
  \/ Phase1Validate
  \/ Phase1Done
  \/ NextCard
  \/ StartPass
  \/ FixIssue
  \/ Reverify
  \/ GenerateReport
  \/ SecondRun

Spec == Init /\ [][Next]_vars

(***************************************************************************)
(* validateCard on its own: phase 1 of a dry run over files whose widths   *)
(* and heights lie within MaxOff pixels of the expected ones.              *)
(***************************************************************************)
Offsets == (0 - MaxOff) .. MaxOff

InitValidate ==
  \E dw \in Offsets, dh \in Offsets, da \in Offsets, dn \in Offsets :
    LET original == Image(734 + dw, 1024 + dh)
        artOnly == Image(734, 603 + da)
        artAndName == Image(734, 767 + dn)
    IN Started(FilesOf([k \in CardKeys |->
                          CardState(original, original, artAndName, artAndName)],
                       [n \in CardNums |-> ArtOnlyState(artOnly, artOnly)]),
               [autoFix |-> FALSE, skipVariants |-> FALSE], 1)

ValidateSpec == InitValidate /\ [][Phase1Validate]_vars

(***************************************************************************)
(* downloadImage with downloadSource "all" on its own: one call, for a     *)
(* card none of whose files exists, against sources that behave in every   *)
(* combination of SourceAnswers.                                           *)
(***************************************************************************)
InitDownload ==
  \E answers \in [SourceSet -> SourceAnswers], l \in 1..Len(languages) :
    /\ providers = answers
    /\ sourceIndex = 1
    /\ li = l
    /\ cardNum = cardRange.start
    /\ pc = "download"
    /\ fs = [p \in AllPaths |-> Absent]
    /\ fs0 = fs
    /\ config = [autoFix |-> TRUE, skipVariants |-> FALSE]
    /\ run = 1
    /\ stats = InitialStats
    /\ errors = << >>
    /\ fixes = << >>
    /\ warnings = << >>
    /\ exitCode = -1
    /\ allIssues = << >>
    /\ ai = 0
    /\ remainingIssues = << >>
    /\ attempt = 0
    /\ sortedIssues = << >>
    /\ ii = 0
    /\ invoked = << >>
    /\ lastClean = [k \in CardKeys |-> FALSE]
    /\ faults = 0
    /\ cdn = [k \in CardKeys |-> "unknown"]
    /\ validation = << >>
    /\ fixResult = FixResult(FALSE, "none", FALSE)
    /\ written = { }
    /\ setDir = [exists |-> FALSE, entries |-> << >>]
    /\ dirFiles = << >>
    /\ fileIndex = 0
    /\ cleanupStats = [deleted |-> 0, skipped |-> 0]

\* one iteration of for (const source of sources): try { ... } catch { ... }
TrySource ==
  /\ pc = "download"
  /\ sourceIndex <= Len(sources)
  /\ LET source == sources[sourceIndex]
         r == DownloadFromSource(fs, source, cardNum, languages[li], providers[source])
         attempting == << FixFrom("Attempting", Path(languages[li], "original", cardNum,
                                                    "webp", ""), source) >>
     IN /\ fs' = r.files
        /\ CASE r.result = "resolved" ->
                   /\ fixes' = fixes \o attempting \o r.log
                                \o << FixFrom("Successfully downloaded",
                                              attempting[1].path, source) >>
                   /\ pc' = "downloaded"
                   /\ UNCHANGED << warnings, sourceIndex, exitCode >>
             [] r.result = "rejected" ->
                   /\ fixes' = fixes \o attempting \o r.log
                   /\ warnings' = Append(warnings, Warn("Failed to download from", source))
                   /\ sourceIndex' = sourceIndex + 1
                   /\ UNCHANGED << pc, exitCode >>
             [] OTHER ->
                   /\ fixes' = fixes \o attempting \o r.log
                   /\ pc' = "crashed"
                   /\ exitCode' = 1
                   /\ UNCHANGED << warnings, sourceIndex >>
  /\ UNCHANGED coreVars
  /\ UNCHANGED cleanupVars
  /\ UNCHANGED << config, stats, errors, li, cardNum, allIssues, ai, remainingIssues,
                  attempt, sortedIssues, ii, invoked, lastClean, faults, cdn, run, fs0,
                  providers >>

\* after the loop: Promise.reject(new Error("Failed to download from all sources"))
AllSourcesFailed ==
  /\ pc = "download"
  /\ sourceIndex > Len(sources)
  /\ pc' = "download_failed"
  /\ errors' = Append(errors, [cardNum |-> cardNum, language |-> languages[li],
                               step |-> DOWNLOAD])
  /\ UNCHANGED coreVars
  /\ UNCHANGED cleanupVars
  /\ UNCHANGED << fs, config, stats, fixes, warnings, exitCode, li, cardNum, allIssues,
                  ai, remainingIssues, attempt, sortedIssues, ii, invoked, lastClean,
                  faults, cdn, run, fs0, providers, sourceIndex >>

NextDownload == TrySource \/ AllSourcesFailed

DownloadSpec == InitDownload /\ [][NextDownload]_vars

(***************************************************************************)
(* The core modules on their own: one card of one language is validated    *)
(* and handed to fixCard, with the sources, the transform and the crops    *)
(* behaving in every way; and cropCard is given sources of every height up *)
(* to MaxHeight.                                                           *)
(***************************************************************************)
\* a process of the core modules at position, working on language l
AtRest(files, position, l) ==
  /\ fs = files
  /\ fs0 = files
  /\ pc = position
  /\ li = l
  /\ cardNum = cardRange.start
  /\ config = [autoFix |-> TRUE, skipVariants |-> FALSE]
  /\ run = 1
  /\ stats = InitialStats
  /\ errors = << >>
  /\ fixes = << >>
  /\ warnings = << >>
  /\ exitCode = -1
  /\ allIssues = << >>
  /\ ai = 0
  /\ remainingIssues = << >>
  /\ attempt = 0
  /\ sortedIssues = << >>
  /\ ii = 0
  /\ invoked = << >>
  /\ lastClean = [k \in CardKeys |-> FALSE]
  /\ faults = 0
  /\ cdn = [k \in CardKeys |-> "unknown"]
  /\ providers = << >>
  /\ sourceIndex = 0
  /\ validation = << >>
  /\ fixResult = FixResult(FALSE, "none", FALSE)
  /\ written = { }

Pair(webp, avif) == [webp |-> webp, avif |-> avif]

FullCardStates ==
  { Pair(w, a) : w \in { Absent, Image(734, 1024), Image(674, 940) },
                 a \in { Absent, Image(734, 1024), Image(674, 940) } }
ArtOnlyPairs ==
  { Pair(Absent, Absent), Pair(Image(734, 603), Image(734, 603)),
    Pair(Image(734, 606), Image(734, 606)), Pair(Image(734, 603), Absent) }
ArtAndNamePairs ==
  { Pair(Absent, Absent), Pair(Image(734, 767), Image(734, 767)),
    Pair(Image(734, 767), Absent) }

\* the card of language l as given, the cards of the other languages complete
CoreFiles(l, full, artOnly, artAndName) ==
  [p \in AllPaths |->
     IF p.tmp # "" THEN Absent
     ELSE IF p.kind = "art_only" THEN artOnly[p.ext]
     ELSE IF p.dir # languages[l]
       THEN (IF p.kind = "original" THEN Image(734, 1024) ELSE Image(734, 767))
     ELSE IF p.kind = "original" THEN full[p.ext]
     ELSE artAndName[p.ext]]

InitCore ==
  /\ \E l \in 1..Len(languages), full \in FullCardStates, artOnly \in ArtOnlyPairs,
        artAndName \in ArtAndNamePairs :
       AtRest(CoreFiles(l, full, artOnly, artAndName), "core_validate", l)
  /\ setDir = [exists |-> FALSE, entries |-> << >>]
  /\ dirFiles = << >>
  /\ fileIndex = 0
  /\ cleanupStats = [deleted |-> 0, skipped |-> 0]

\* validateSet: validateCard for the card
CoreValidate ==
  /\ pc = "core_validate"
  /\ validation' = CoreValidateCard(fs, cardNum, languages[li])
  /\ pc' = "core_fix"
  /\ UNCHANGED << fs, config, stats, errors, fixes, warnings, exitCode, li, cardNum,
                  allIssues, ai, remainingIssues, attempt, sortedIssues, ii, invoked,
                  lastClean, faults, cdn, run, fs0, providers, sourceIndex,
                  fixResult, written >>
  /\ UNCHANGED cleanupVars

TransformAnswers == { "ok", "fail_webp", "fail_avif" }
CropFailures == 0..4

\* fixCards: fixCard for the card
FixCardStep ==
  /\ pc = "core_fix"
  /\ \E ravensburg \in SourceAnswers, lorcast \in SourceAnswers, to \in TransformAnswers,
        failing \in CropFailures :
       LET r == FixCard(Disk(fs, { }), validation, languages[li], ravensburg, lorcast, to, failing)
       IN /\ fs' = r.disk.files
          /\ written' = r.disk.written
          /\ fixResult' = r.result
          /\ invoked' = r.calls
          /\ pc' = IF r.crashed THEN "crashed" ELSE "core_fixed"
          /\ exitCode' = IF r.crashed THEN 1 ELSE exitCode
  /\ UNCHANGED << config, stats, errors, fixes, warnings, li, cardNum, allIssues, ai,
                  remainingIssues, attempt, sortedIssues, ii, lastClean, faults, cdn, run,
                  fs0, providers, sourceIndex, validation >>
  /\ UNCHANGED cleanupVars

NextCore == CoreValidate \/ FixCardStep

CoreSpec == InitCore /\ [][NextCore]_vars

Heights == 940 .. MaxHeight

InitCrop ==
  /\ \E l \in 1..Len(languages), h \in Heights :
       AtRest(CoreFiles(l, Pair(Image(734, h), Image(734, h)), Pair(Absent, Absent),
                        Pair(Absent, Absent)), "crop", l)
  /\ setDir = [exists |-> FALSE, entries |-> << >>]
  /\ dirFiles = << >>
  /\ fileIndex = 0
  /\ cleanupStats = [deleted |-> 0, skipped |-> 0]

\* cropCards: cropCard for the card
CropCardStep ==
  /\ pc = "crop"
  /\ \E failing \in CropFailures :
       LET paths == GetFilePaths(cardNum, languages[li])
           r == CropCard(Disk(fs, { }), paths.originalWebp, paths.originalAvif, paths, failing)
       IN /\ fs' = r.disk.files
          /\ written' = r.disk.written
          /\ fixResult' = FixResult(r.success, "cropCard", r.success)
  /\ pc' = "cropped"
  /\ UNCHANGED << config, stats, errors, fixes, warnings, exitCode, li, cardNum, allIssues,
                  ai, remainingIssues, attempt, sortedIssues, ii, invoked, lastClean,
                  faults, cdn, run, fs0, providers, sourceIndex, validation >>
  /\ UNCHANGED cleanupVars

CropSpec == InitCrop /\ [][CropCardStep]_vars

(***************************************************************************)
(* core/transform cleanupJpgFiles(directory), as runForLanguage calls it   *)
(* on the set directory of a language.  An entry of the directory is a     *)
(* name of a base and an extension; the directory may hold source JPGs in  *)
(* several spellings of the extension, converted files and other files.    *)
(***************************************************************************)
FileOrder ==
  LET bases == << "001", "002" >>
      exts == << "JPEG", "avif", "jpg", "json", "webp" >>
  IN [i \in 1..(Len(bases) * Len(exts)) |->
        [base |-> bases[((i - 1) \div Len(exts)) + 1],
         ext |-> exts[((i - 1) % Len(exts)) + 1]]]

\* mutant: the WebP alone is looked for
ConversionsExistWebpOnly(entries, file) == entries[[file EXCEPT !.ext = "webp"]]

\* basePath is the path without its .jpg/.jpeg ending;
\* fs.existsSync(`${basePath}.webp`) && fs.existsSync(`${basePath}.avif`)
ConversionsExist(entries, file) ==
  /\ entries[[file EXCEPT !.ext = "webp"]]
  /\ entries[[file EXCEPT !.ext = "avif"]]

InitCleanup ==
  /\ \E l \in 1..Len(languages) :
       AtRest(CoreFiles(l, Pair(Image(734, 1024), Image(734, 1024)), Pair(Absent, Absent),
                        Pair(Absent, Absent)), "cleanup", l)
  /\ \E exists \in BOOLEAN :
       \E entries \in [{ FileOrder[i] : i \in DOMAIN FileOrder } -> BOOLEAN] :
         /\ ~exists => \A f \in DOMAIN entries : ~entries[f]
         /\ setDir = [exists |-> exists, entries |-> entries]
  /\ dirFiles = << >>
  /\ fileIndex = 0
  /\ cleanupStats = [deleted |-> 0, skipped |-> 0]

\* if (!fs.existsSync(directory)) return stats; files = fs.readdirSync(directory)
CleanupStart ==
  /\ pc = "cleanup"
  /\ LET Listed(f) == setDir.entries[f]
         files == IF setDir.exists THEN SelectSeq(FileOrder, Listed) ELSE << >>
     IN /\ dirFiles' = files
        /\ fileIndex' = 1
        /\ pc' = IF Len(files) = 0 THEN "cleaned" ELSE "cleanup_loop"
  /\ UNCHANGED << setDir, cleanupStats >>
  /\ UNCHANGED downloadVars
  /\ UNCHANGED coreVars
  /\ UNCHANGED << fs, config, stats, errors, fixes, warnings, exitCode, li, cardNum,
                  allIssues, ai, remainingIssues, attempt, sortedIssues, ii, invoked,
                  lastClean, faults, cdn, run, fs0 >>

\* one turn of the loop over files: a file is taken when
\* file.toLowerCase() ends with ".jpg" or ".jpeg"; unlinkSync may throw, which
\* is caught
CleanupFile ==
  /\ pc = "cleanup_loop"
  /\ LET file == dirFiles[fileIndex]
         ToLowerCase(e) == CASE e = "JPEG" -> "jpeg" [] e = "JPG" -> "jpg" [] OTHER -> e
         IsJpg(f) == ToLowerCase(f.ext) \in { "jpg", "jpeg" }
     IN \E unlink \in { "ok", "error" } :
          /\ unlink = "error" =>
                IsJpg(file) /\ ConversionsExist(setDir.entries, file) /\ faults < MaxFaults
          /\ faults' = IF unlink = "error" THEN faults + 1 ELSE faults
          /\ IF ~IsJpg(file)
               THEN UNCHANGED << setDir, cleanupStats >>
               ELSE IF ConversionsExist(setDir.entries, file) /\ unlink = "ok"
                 THEN /\ setDir' = [setDir EXCEPT !.entries[file] = FALSE]
                      /\ cleanupStats' = [cleanupStats EXCEPT !.deleted = @ + 1]
                 ELSE /\ cleanupStats' = [cleanupStats EXCEPT !.skipped = @ + 1]
                      /\ UNCHANGED setDir
  /\ fileIndex' = fileIndex + 1
  /\ pc' = IF fileIndex = Len(dirFiles) THEN "cleaned" ELSE "cleanup_loop"
  /\ UNCHANGED dirFiles
  /\ UNCHANGED downloadVars
  /\ UNCHANGED coreVars
  /\ UNCHANGED << fs, config, stats, errors, fixes, warnings, exitCode, li, cardNum,
                  allIssues, ai, remainingIssues, attempt, sortedIssues, ii, invoked,
                  lastClean, cdn, run, fs0 >>

NextCleanup == CleanupStart \/ CleanupFile
CleanupSpec == InitCleanup /\ [][NextCleanup]_vars


(***************************************************************************)
(* Vocabulary of the properties.                                           *)
(***************************************************************************)
\* the card whose loop body runs, and the card whose loop has just ended
Current == allIssues[ai]
LoopEnded == pc = "next_card" /\ ai >= 2
Ended == allIssues[ai - 1]

Count(seq, Test(_)) == Cardinality({ i \in 1..Len(seq) : Test(seq[i]) })

\* the "Failed to fix" entries of a card for a step
FailuresOf(card, step) ==
  LET Is(e) == e = [cardNum |-> card.cardNum, language |-> card.language, step |-> step]
  IN Count(errors, Is)

\* the strict total order of the pipeline steps
PipelineOrder ==
  << DOWNLOAD, RESIZE_ORIGINAL, CONVERT_ORIGINAL, CROP_ART_ONLY, CONVERT_ART_ONLY,
     CROP_ART_AND_NAME, CONVERT_ART_AND_NAME >>
Rank(step) == CHOOSE i \in 1..Len(PipelineOrder) : PipelineOrder[i] = step

NonDecreasing(steps) ==
  \A i, j \in 1..Len(steps) : i < j => Rank(steps[i]) <= Rank(steps[j])

\* the two sequences hold the same elements the same number of times
SameElements(a, b) ==
  /\ Len(a) = Len(b)
  /\ \A i \in 1..Len(a) :
       Cardinality({ j \in 1..Len(a) : a[j] = a[i] })
         = Cardinality({ j \in 1..Len(b) : b[j] = a[i] })

StepsOf(issues) == [i \in 1..Len(issues) |-> issues[i].step]

ExactOriginal == Image(734, 1024)
CropSteps == { CROP_ART_ONLY, CROP_ART_AND_NAME }

(***************************************************************************)
(* C1.  Bounded retry.  No card gets a fourth pass; and when the loop of   *)
(* a card ends after every pass of it was one failed download, it has run  *)
(* exactly maxAttempts = 3 passes and the re-validated issue list is the   *)
(* list the card started with, the single issue Download.                  *)
(***************************************************************************)
C1_BoundedRetry ==
  /\ attempt <= 3
  /\ (LoopEnded /\ FailuresOf(Ended, DOWNLOAD) = attempt) =>
       /\ attempt = 3
       /\ remainingIssues = Ended.issues
       /\ StepsOf(remainingIssues) = << DOWNLOAD >>

\* the loop of a card has ended after three failed downloads
C1_Witness ==
  /\ LoopEnded
  /\ FailuresOf(Ended, DOWNLOAD) = 3
  /\ attempt = 3

(***************************************************************************)
(* C2.  Pipeline order.  In every pass fixIssue is called in non-decreasing *)
(* pipeline order; the sorted list of the pass holds exactly the issues    *)
(* validateCard returned (none dropped, none duplicated); and when the     *)
(* pass is through, fixIssue has been called once for each of them.        *)
(***************************************************************************)
C2_PipelineOrder ==
  /\ NonDecreasing(invoked)
  /\ pc = "fix" =>
       /\ NonDecreasing(StepsOf(sortedIssues))
       /\ SameElements(sortedIssues, remainingIssues)
       /\ ii > Len(sortedIssues) => invoked = StepsOf(sortedIssues)

\* a pass over the original, the art_only and the art_and_name steps is through
C2_Witness ==
  /\ pc = "fix"
  /\ ii > Len(sortedIssues)
  /\ invoked = << CONVERT_ORIGINAL, CROP_ART_ONLY, CONVERT_ART_ONLY,
                  CROP_ART_AND_NAME, CONVERT_ART_AND_NAME >>

(***************************************************************************)
(* C3.  No crop from an unconfirmed original.  A step changes a variant    *)
(* WebP only if it is a crop fix of the current card and that card's       *)
(* original WebP is exactly 734x1024 before the step; a crop fix that      *)
(* finds another original (or none) changes no file and is logged as       *)
(* failed.                                                                 *)
(***************************************************************************)
IsVariantWebp(p) == p.kind # "original" /\ p.ext = "webp" /\ p.tmp = ""

C3_CropNeedsValidOriginal ==
  [][ /\ \A p \in DOMAIN fs : (IsVariantWebp(p) /\ fs'[p] # fs[p]) =>
            /\ pc = "fix" /\ ii <= Len(sortedIssues)
            /\ sortedIssues[ii].step \in CropSteps
            /\ sortedIssues[ii].path = p
            /\ fs[GetFilePaths(Current.cardNum, Current.language).originalWebp] = ExactOriginal
      /\ ( /\ pc = "fix" /\ ii <= Len(sortedIssues)
           /\ invoked' # invoked
           /\ sortedIssues[ii].step \in CropSteps
           /\ fs[GetFilePaths(Current.cardNum, Current.language).originalWebp] # ExactOriginal )
         => /\ fs' = fs
            /\ stats'.failed = stats.failed + 1
            /\ errors' = Append(errors, [cardNum |-> Current.cardNum,
                                         language |-> Current.language,
                                         step |-> sortedIssues[ii].step])
    ]_vars

\* a crop of art_and_name has just been refused: the original of the card is
\* not 734x1024 and the variant is still missing
C3_Witness ==
  /\ pc = "fix"
  /\ Len(invoked) > 0 /\ invoked[Len(invoked)] = CROP_ART_AND_NAME
  /\ FailuresOf(Current, CROP_ART_AND_NAME) > 0
  /\ fs[GetFilePaths(Current.cardNum, Current.language).originalWebp].st = "image"
  /\ fs[GetFilePaths(Current.cardNum, Current.language).originalWebp] # ExactOriginal
  /\ ~CheckFileExists(fs, GetFilePaths(Current.cardNum, Current.language).artAndNameWebp)


(***************************************************************************)
(* The validateCard call the next step makes, if it makes one, and what    *)
(* it returns.                                                             *)
(***************************************************************************)
Calls ==
  IF pc = "phase1"
    THEN { [cardNum |-> cardNum, language |-> languages[li]] }
    ELSE IF pc = "fix" /\ ii > Len(sortedIssues)
      THEN { [cardNum |-> Current.cardNum, language |-> Current.language] }
      ELSE { }

Returns(c) == ~Threw(fs, config, c.cardNum, c.language)
Returned(c) == ValidateCard(fs, config, c.cardNum, c.language)
PathsOf(c) == GetFilePaths(c.cardNum, c.language)

HasIssue(issues, step, path) ==
  \E i \in 1..Len(issues) : issues[i].step = step /\ issues[i].path = path

ResizesOnlyOriginals(c) ==
  /\ \A i \in 1..Len(Returned(c)) :
       Returned(c)[i].step = RESIZE_ORIGINAL => Returned(c)[i].path = PathsOf(c).originalWebp
  /\ \A i \in 1..Len(fixes) :
       fixes[i].msg \in { "Resizing", "Resized" } => fixes[i].path.kind = "original"

(***************************************************************************)
(* C4 as stated.  Whenever validateCard returns, each variant WebP of the   *)
(* card (art_only, art_and_name) whose height is 1024 has a crop issue in  *)
(* the result, and resize issues and resize operations are on originals.   *)
(***************************************************************************)
C4_AsStated ==
  \A c \in Calls : Returns(c) =>
    /\ fs[PathsOf(c).artOnlyWebp].h = 1024 =>
         HasIssue(Returned(c), CROP_ART_ONLY, PathsOf(c).artOnlyWebp)
    /\ fs[PathsOf(c).artAndNameWebp].h = 1024 =>
         HasIssue(Returned(c), CROP_ART_AND_NAME, PathsOf(c).artAndNameWebp)
    /\ ResizesOnlyOriginals(c)

(***************************************************************************)
(* C4, amended.  Whenever validateCard returns for a card whose original   *)
(* WebP exists, with variants enabled: an art_and_name WebP of height 1024 *)
(* has a crop issue in the result, and so has an art_only WebP of height   *)
(* 1024 when the language is the first one; no resize issue and no resize  *)
(* operation is on anything but an original.                               *)
(***************************************************************************)
C4_CropNotResize ==
  \A c \in Calls : Returns(c) =>
    /\ ( /\ CheckFileExists(fs, PathsOf(c).originalWebp)
         /\ ~config.skipVariants
         /\ c.language = languages[1]
         /\ fs[PathsOf(c).artOnlyWebp].h = 1024 )
       => HasIssue(Returned(c), CROP_ART_ONLY, PathsOf(c).artOnlyWebp)
    /\ ( /\ CheckFileExists(fs, PathsOf(c).originalWebp)
         /\ ~config.skipVariants
         /\ fs[PathsOf(c).artAndNameWebp].h = 1024 )
       => HasIssue(Returned(c), CROP_ART_AND_NAME, PathsOf(c).artAndNameWebp)
    /\ ResizesOnlyOriginals(c)

\* validateCard is about to report an uncropped art_and_name for a crop, in a
\* run that has resized an original
C4_Witness ==
  \E c \in Calls :
    /\ Returns(c)
    /\ fs[PathsOf(c).artAndNameWebp].h = 1024
    /\ HasIssue(Returned(c), CROP_ART_AND_NAME, PathsOf(c).artAndNameWebp)
    /\ \E i \in 1..Len(fixes) : fixes[i].msg = "Resized"

(***************************************************************************)
(* C5 as stated.  A finished repairing run has written each shared         *)
(* art_only file exactly once, and no art_only issue is reported for a     *)
(* card of another language than the first.                                *)
(***************************************************************************)
ArtOnlySteps == { CROP_ART_ONLY, CONVERT_ART_ONLY }
IsArtOnlyFile(p) == p.kind = "art_only" /\ p.tmp = ""

Written(p) ==
  LET Is(e) == e.path = p /\ e.msg \in { "Cropped", "Created" }
  IN Count(fixes, Is)

NoArtOnlyIssueForOtherLanguages ==
  /\ \A c \in Calls : (Returns(c) /\ c.language # languages[1]) =>
       \A i \in 1..Len(Returned(c)) : Returned(c)[i].step \notin ArtOnlySteps
  /\ \A a \in 1..Len(allIssues) : allIssues[a].language # languages[1] =>
       \A i \in 1..Len(allIssues[a].issues) :
         allIssues[a].issues[i].step \notin ArtOnlySteps
  /\ ((pc \in { "while", "fix" }) /\ Current.language # languages[1]) =>
       \A i \in 1..Len(remainingIssues) : remainingIssues[i].step \notin ArtOnlySteps
  /\ (pc = "fix" /\ Current.language # languages[1]) =>
       \A i \in 1..Len(invoked) : invoked[i] \notin ArtOnlySteps

C5_AsStated ==
  /\ (pc = "done" /\ config.autoFix /\ ~config.skipVariants) =>
       \A p \in DOMAIN fs : IsArtOnlyFile(p) => Written(p) = 1
  /\ NoArtOnlyIssueForOtherLanguages

(***************************************************************************)
(* C5, amended.  In a run no shared art_only file is written more than     *)
(* once (not at all when it is already in place or when its fix fails);    *)
(* every step that changes an art_only file or one of its temporaries is a *)
(* fix of a card of the first language, and when it changes the artifact   *)
(* it logs the crop or the conversion; no art_only issue is reported, kept *)
(* or fixed for a card of another language.                                *)
(***************************************************************************)
C5_ArtOnlyExclusive ==
  /\ [](\A p \in DOMAIN fs : IsArtOnlyFile(p) => Written(p) <= 1)
  /\ []NoArtOnlyIssueForOtherLanguages
  /\ [][ \A p \in DOMAIN fs : (p.kind = "art_only" /\ fs'[p] # fs[p]) =>
            /\ pc = "fix"
            /\ Current.language = languages[1]
            /\ p.tmp = "" => Written(p)' = Written(p) + 1
       ]_vars

\* the run has cropped and converted art_only once and has also repaired
\* the card of the second language
C5_Witness ==
  /\ pc = "done"
  /\ \A p \in DOMAIN fs : IsArtOnlyFile(p) => Written(p) = 1
  /\ \E i \in 1..Len(fixes) : fixes[i].msg = "Cropped" /\ fixes[i].path.dir = languages[2]

(***************************************************************************)
(* C6.  Idempotence.  A run started on the files of a run in which the     *)
(* last validation of every card returned no issue finds no issue, calls   *)
(* no fix and leaves every file as it was.                                 *)
(***************************************************************************)
C6_Idempotent ==
  run = 2 =>
    /\ fs = fs0
    /\ allIssues = << >>
    /\ stats.missing = 0
    /\ stats.recovered = 0 /\ stats.failed = 0
    /\ fixes = << >> /\ errors = << >> /\ invoked = << >>
    /\ pc \in { "phase1", "phase1_done", "report", "done" }
    /\ pc = "done" => stats.checked = Cardinality(CardKeys) /\ exitCode = 0

\* the second run has ended, after a first run in which a fix had failed
C6_Witness ==
  /\ run = 2
  /\ pc = "done"
  /\ faults > 0

(***************************************************************************)
(* C7.  Dry run.  With autoFix false no fix is called and no file is       *)
(* created, changed or deleted; a run that ends has validated every card   *)
(* of every language and holds the issues of each card that has any.       *)
(***************************************************************************)
ReportedIssues(k) ==
  { allIssues[a].issues : a \in { b \in 1..Len(allIssues) :
      allIssues[b].language = k[1] /\ allIssues[b].cardNum = k[2] } }

C7_DryRun ==
  ~config.autoFix =>
    /\ fs = fs0
    /\ fixes = << >> /\ errors = << >> /\ invoked = << >>
    /\ stats.recovered = 0 /\ stats.failed = 0
    /\ pc \in { "phase1", "phase1_done", "report", "done", "fatal" }
    /\ pc = "done" =>
         /\ stats.checked = Cardinality(CardKeys)
         /\ \A k \in CardKeys :
              ReportedIssues(k) = { ValidateCard(fs, config, k[2], k[1]) } \ { << >> }

\* a dry run has ended with issues reported for both cards
C7_Witness ==
  /\ ~config.autoFix
  /\ pc = "done"
  /\ Len(allIssues) = 2


(***************************************************************************)
(* C8.  Failure isolation.  A fixIssue call that does not recover its      *)
(* issue returns to the batch: the failure is counted once and recorded    *)
(* with its step, and the pass goes on to the next issue of the card.      *)
(***************************************************************************)
FixCalled == pc = "fix" /\ ii <= Len(sortedIssues)

C8_FailureIsolation ==
     [][ (FixCalled /\ stats'.recovered = stats.recovered) =>
            /\ stats'.failed = stats.failed + 1
            /\ errors' = Append(errors, [cardNum |-> Current.cardNum,
                                         language |-> Current.language,
                                         step |-> sortedIssues[ii].step])
            /\ pc' = "fix"
            /\ ii' = ii + 1
            /\ sortedIssues' = sortedIssues
       ]_vars

(***************************************************************************)
(* C9.  Crop atomicity.  No temporary file of a crop outlives the fixIssue *)
(* call that ran it; a crop fix that succeeds leaves the destination 734   *)
(* wide with the cropped height, and one that fails leaves the             *)
(* destination, and every other file, as it was.                           *)
(***************************************************************************)

CroppedImage(step) ==
  IF step = CROP_ART_ONLY THEN Image(734, 603) ELSE Image(734, 767)

C9_CropAtomic ==
  /\ [](\A p \in DOMAIN fs : p.tmp \in { "_temp_dest", "_top", "_bottom" } => fs[p] = Absent)
  /\ [][ (FixCalled /\ sortedIssues[ii].step \in CropSteps) =>
            IF stats'.recovered = stats.recovered + 1
              THEN fs' = [fs EXCEPT ![sortedIssues[ii].path] =
                                       CroppedImage(sortedIssues[ii].step)]
              ELSE fs' = fs
       ]_vars

\* a crop from a valid original has failed on the way, and the uncropped
\* destination it was to replace is still there
C9_Witness ==
  /\ pc = "fix"
  /\ invoked # << >>
  /\ invoked[Len(invoked)] = CROP_ART_AND_NAME
  /\ errors # << >>
  /\ errors[Len(errors)].step = CROP_ART_AND_NAME
  /\ fs[GetFilePaths(Current.cardNum, Current.language).originalWebp] = ExactOriginal
  /\ fs[GetFilePaths(Current.cardNum, Current.language).artAndNameWebp].h = 1024

(***************************************************************************)
(* C10 as stated.  When validateCard returns no issue, every artifact      *)
(* expected of the card exists in both formats, is 734 wide, and has a     *)
(* height within the tolerance of the height of its type.                  *)
(***************************************************************************)
Expected(c) ==
  { << "original", PathsOf(c).originalWebp >>, << "original", PathsOf(c).originalAvif >> }
  \cup (IF config.skipVariants THEN { } ELSE
          { << "art_and_name", PathsOf(c).artAndNameWebp >>,
            << "art_and_name", PathsOf(c).artAndNameAvif >> })
  \cup (IF config.skipVariants \/ c.language # languages[1] THEN { } ELSE
          { << "art_only", PathsOf(c).artOnlyWebp >>,
            << "art_only", PathsOf(c).artOnlyAvif >> })

TypeHeight(type) ==
  IF type = "original" THEN 1024 ELSE IF type = "art_only" THEN 603 ELSE 767

C10_AsStated ==
  \A c \in Calls : (Returns(c) /\ Returned(c) = << >>) =>
    \A e \in Expected(c) :
      /\ fs[e[2]].st = "image"
      /\ fs[e[2]].w = 734
      /\ fs[e[2]].h - TypeHeight(e[1]) \in -2..2

(***************************************************************************)
(* C10, amended.  When validateCard returns no issue, every artifact       *)
(* expected of the card exists in both formats, the original WebP is       *)
(* exactly 734x1024 and no expected variant WebP is 1024 high.  (The width *)
(* and the height of a variant beyond that, and the dimensions of the AVIF *)
(* files, are not looked at.)                                              *)
(***************************************************************************)
C10_ConvergenceSound ==
  \A c \in Calls : (Returns(c) /\ Returned(c) = << >>) =>
    /\ \A e \in Expected(c) : fs[e[2]] # Absent
    /\ fs[PathsOf(c).originalWebp] = ExactOriginal
    /\ \A e \in Expected(c) :
         (e[1] # "original" /\ e[2].ext = "webp") => fs[e[2]].h # 1024

\* after a repair, the card is about to validate with no issue
C10_Witness ==
  \E c \in Calls :
    /\ pc = "fix"
    /\ fixes # << >>
    /\ Returns(c)
    /\ Returned(c) = << >>
    /\ Cardinality(Expected(c)) = 6


(***************************************************************************)
(* C11.  Convergence under success.  In a repairing run in which no        *)
(* download, resize, convert or crop has failed, the run does not end with *)
(* a card that had issues in phase 1 left unrepaired: the loop of a card   *)
(* ends, within 3 passes, on an empty issue list.                          *)
(***************************************************************************)
EveryOperationSucceeded ==
  /\ faults = 0
  /\ stats.failed = 0
  /\ \A k \in CardKeys : cdn[k] # "404"

C11_ConvergesUnderSuccess ==
  (config.autoFix /\ EveryOperationSucceeded) =>
    /\ attempt <= 3
    /\ LoopEnded => remainingIssues = << >>
    /\ pc = "done" => AllClean
    /\ pc = "fatal" => allIssues = << >>


(***************************************************************************)
(* The cards phase 1 has validated so far and the issues it kept for each  *)
(* (no file changes during phase 1).                                       *)
(***************************************************************************)
LanguageIndex(language) == CHOOSE i \in 1..Len(languages) : languages[i] = language

ValidatedInPhase1 ==
  { k \in CardKeys :
      \/ pc = "phase1_done"
      \/ /\ pc = "phase1"
         /\ \/ LanguageIndex(k[1]) < li
            \/ LanguageIndex(k[1]) = li /\ k[2] < cardNum }

IssuesFound(k) ==
  IF ReportedIssues(k) = { } THEN << >> ELSE CHOOSE issues \in ReportedIssues(k) : TRUE

\* the variant WebPs validateCard looks at for card k, with the expected
\* height: none when the original WebP is missing or variants are skipped,
\* art_only for the first language only
InspectedVariants(k) ==
  IF config.skipVariants \/ ~CheckFileExists(fs, GetFilePaths(k[2], k[1]).originalWebp)
    THEN { }
    ELSE { << GetFilePaths(k[2], k[1]).artAndNameWebp, 767 >> }
         \cup (IF k[1] = languages[1]
                 THEN { << GetFilePaths(k[2], k[1]).artOnlyWebp, 603 >> } ELSE { })

HasIssueFor(issues, path) == \E i \in 1..Len(issues) : issues[i].path = path
Warned(msg, path) == \E i \in 1..Len(warnings) : warnings[i] = [msg |-> msg, path |-> path]
WarnedAbout(path) == \E i \in 1..Len(warnings) : warnings[i].path = path

(***************************************************************************)
(* C12 as stated.  validateCard reports no issue for a variant WebP whose  *)
(* height is within 2 pixels of the expected height, and reports an issue  *)
(* for one whose height is 3 pixels off.                                   *)
(***************************************************************************)
C12_AsStated ==
  \A k \in ValidatedInPhase1 : \A v \in InspectedVariants(k) :
    /\ fs[v[1]].h - v[2] \in -2..2 => ~HasIssueFor(IssuesFound(k), v[1])
    /\ fs[v[1]].h - v[2] \in { -3, 3 } => HasIssueFor(IssuesFound(k), v[1])

(***************************************************************************)
(* C12, amended.  validateCard reports no issue and no warning for a       *)
(* variant WebP whose height is within 2 pixels of the expected height;    *)
(* for one whose height is 3 pixels off it reports no issue either, only   *)
(* the warning "unexpected dimensions".                                    *)
(***************************************************************************)
C12_ToleranceBoundary ==
  \A k \in ValidatedInPhase1 : \A v \in InspectedVariants(k) :
    /\ fs[v[1]].h - v[2] \in -2..2 =>
         ~HasIssueFor(IssuesFound(k), v[1]) /\ ~WarnedAbout(v[1])
    /\ fs[v[1]].h - v[2] \in { -3, 3 } =>
         ~HasIssueFor(IssuesFound(k), v[1]) /\ Warned("unexpected dimensions", v[1])

\* both cards are validated: art_only is 2 pixels short and accepted, the
\* art_and_name files are 3 pixels too tall and only warned about
C12_Witness ==
  /\ pc = "phase1_done"
  /\ \A k \in CardKeys :
       /\ fs[GetFilePaths(k[2], k[1]).artOnlyWebp].h = 601
       /\ fs[GetFilePaths(k[2], k[1]).artAndNameWebp].h = 770
       /\ fs[GetFilePaths(k[2], k[1]).originalWebp] = ExactOriginal
       /\ Warned("unexpected dimensions", GetFilePaths(k[2], k[1]).artAndNameWebp)
  /\ allIssues = << >>

(***************************************************************************)
(* C14.  validateCard reports the issue ResizeOriginal for an existing     *)
(* original WebP exactly when its width is more than 2 pixels from 734 or  *)
(* its height more than 2 pixels from 1024.                                *)
(***************************************************************************)
C14_OriginalTolerance ==
  \A k \in ValidatedInPhase1 :
    LET original == GetFilePaths(k[2], k[1]).originalWebp
    IN fs[original].st = "image" =>
         ( HasIssue(IssuesFound(k), RESIZE_ORIGINAL, original)
           <=> ( fs[original].w - 734 \notin -2..2 \/ fs[original].h - 1024 \notin -2..2 ) )


(***************************************************************************)
(* A variant WebP of an unexpected height: readable, not 1024 high and     *)
(* more than 2 pixels from the height expected of its type.                *)
(***************************************************************************)
UnexpectedHeight(p) ==
  /\ fs[p].st = "image"
  /\ fs[p].h # 1024
  /\ fs[p].h - (IF p.kind = "art_only" THEN 603 ELSE 767) \notin -2..2

NeverRepaired ==
  [][ \A p \in DOMAIN fs : (IsVariantWebp(p) /\ UnexpectedHeight(p)) => fs'[p] = fs[p] ]_vars

(***************************************************************************)
(* C13 as stated.  A variant WebP of an unexpected height is never changed *)
(* or deleted, and a run that ends has a warning for it.                   *)
(***************************************************************************)
C13_AsStated ==
  /\ NeverRepaired
  /\ [](pc = "done" =>
          \A p \in DOMAIN fs : (IsVariantWebp(p) /\ UnexpectedHeight(p)) => WarnedAbout(p))

(***************************************************************************)
(* C13, amended.  A variant WebP of an unexpected height is never changed  *)
(* or deleted by any step of the run; and every validateCard call that     *)
(* looks at it (the original WebP of the card exists, variants are not     *)
(* skipped, the language is the first one for art_only) returns no issue   *)
(* for it and records the warning "unexpected dimensions".                 *)
(***************************************************************************)
C13_WarningOnly ==
  /\ NeverRepaired
  /\ [][ \A c \in Calls : stats'.checked = stats.checked + 1 =>
           \A v \in InspectedVariants(<< c.language, c.cardNum >>) :
             UnexpectedHeight(v[1]) =>
               /\ ~HasIssueFor(Returned(c), v[1])
               /\ Warned("unexpected dimensions", v[1])'
       ]_vars

\* the run has repaired the card of the first language and ended; the shared
\* art_only WebP is still 606 high, as it was, and has its warning
C13_Witness ==
  /\ pc = "done"
  /\ \E i \in 1..Len(fixes) : fixes[i].path.dir = languages[1]
  /\ \E p \in DOMAIN fs :
       /\ IsVariantWebp(p) /\ p.kind = "art_only"
       /\ fs[p] = Image(734, 606) /\ fs0[p] = fs[p]
       /\ Warned("unexpected dimensions", p)


(***************************************************************************)
(* C15.  A corrupt artifact is treated like a missing one.  Every          *)
(* validateCard call returns, with the issues it would return were the     *)
(* unreadable files absent, and the run goes on.                           *)
(***************************************************************************)
AsMissing(files) ==
  [p \in DOMAIN files |-> IF files[p].st = "corrupt" THEN Absent ELSE files[p]]

C15_CorruptLikeMissing ==
  [][ \A c \in Calls :
        /\ pc' # "fatal"
        /\ stats'.checked = stats.checked + 1
        /\ LET issues == ValidateCard(AsMissing(fs), config, c.cardNum, c.language)
           IN IF pc = "phase1"
                THEN allIssues' = IF issues = << >> THEN allIssues
                                  ELSE Append(allIssues, [cardNum |-> c.cardNum,
                                                          language |-> c.language,
                                                          issues |-> issues])
                ELSE remainingIssues' = issues
    ]_vars


(***************************************************************************)
(* A pass of the card of the second language has applied its fixes and is  *)
(* about to re-validate; the original of the card was missing when the run *)
(* started, the CDN serves it at 734x1024 and no fix of the card has       *)
(* failed.                                                                 *)
(***************************************************************************)
NoFailureOf(card) ==
  \A i \in 1..Len(errors) :
    errors[i].cardNum # card.cardNum \/ errors[i].language # card.language

DownloadedAtOnce(n) ==
  /\ pc = "fix" /\ ii > Len(sortedIssues)
  /\ attempt = n
  /\ Current.language = languages[2]
  /\ fs0[GetFilePaths(Current.cardNum, Current.language).originalWebp] = Absent
  /\ cdn[<< Current.language, Current.cardNum >>] = "200_734x1024"
  /\ NoFailureOf(Current)

CurrentPaths == GetFilePaths(Current.cardNum, Current.language)

ArtOnlyUntouchedByOthers ==
  [][ (pc = "fix" /\ Current.language # languages[1]) =>
        \A p \in DOMAIN fs : p.kind = "art_only" => fs'[p] = fs[p] ]_vars

(***************************************************************************)
(* C16 as stated.  After the first pass of such a card the original and    *)
(* (variants enabled) art_and_name exist in both formats, art_and_name at  *)
(* 734x767, the re-validation returns no issue and no art_only file was    *)
(* touched.                                                                *)
(***************************************************************************)
C16_AsStated ==
  /\ [](DownloadedAtOnce(1) =>
          /\ fs[CurrentPaths.originalWebp] # Absent
          /\ fs[CurrentPaths.originalAvif] # Absent
          /\ ~config.skipVariants =>
               /\ fs[CurrentPaths.artAndNameWebp] = Image(734, 767)
               /\ fs[CurrentPaths.artAndNameAvif] = Image(734, 767)
          /\ \A c \in Calls : Returns(c) /\ Returned(c) = << >>)
  /\ ArtOnlyUntouchedByOthers

(***************************************************************************)
(* C16, amended.  The first pass of such a card only downloads: after it   *)
(* the original WebP is 734x1024 and the re-validation, when it returns,   *)
(* reports the missing AVIF of the original.  After the second pass the    *)
(* original is 734x1024 in both formats, the re-validation returns no      *)
(* issue and, with variants enabled, an art_and_name WebP that was missing *)
(* or 1024 high is 734x767 and its AVIF exists (734x767 if it was          *)
(* missing).  No step for the card touches an art_only file.               *)
(***************************************************************************)
C16_TwoPasses ==
  /\ [](DownloadedAtOnce(1) =>
          /\ invoked = << DOWNLOAD >>
          /\ fs[CurrentPaths.originalWebp] = ExactOriginal
          /\ \A c \in Calls : (Returns(c) /\ fs[CurrentPaths.originalAvif] = Absent) =>
               HasIssue(Returned(c), CONVERT_ORIGINAL, CurrentPaths.originalAvif))
  /\ [](DownloadedAtOnce(2) =>
          /\ fs[CurrentPaths.originalWebp] = ExactOriginal
          /\ fs[CurrentPaths.originalAvif] = ExactOriginal
          /\ \A c \in Calls : Returns(c) /\ Returned(c) = << >>
          /\ ~config.skipVariants =>
               /\ (fs0[CurrentPaths.artAndNameWebp] = Absent
                     \/ fs0[CurrentPaths.artAndNameWebp].h = 1024)
                    => fs[CurrentPaths.artAndNameWebp] = Image(734, 767)
               /\ fs[CurrentPaths.artAndNameAvif] =
                    IF fs0[CurrentPaths.artAndNameAvif] = Absent
                      THEN Image(734, 767) ELSE fs0[CurrentPaths.artAndNameAvif])
  /\ [](~DownloadedAtOnce(3))
  /\ ArtOnlyUntouchedByOthers

\* the second pass of the card has cropped and converted art_and_name
C16_Witness ==
  /\ DownloadedAtOnce(2)
  /\ fs0[CurrentPaths.artAndNameWebp] = Absent
  /\ fs[CurrentPaths.artAndNameWebp] = Image(734, 767)
  /\ fs[CurrentPaths.artAndNameAvif] = Image(734, 767)
  /\ invoked = << CONVERT_ORIGINAL, CROP_ART_AND_NAME, CONVERT_ART_AND_NAME >>


(***************************************************************************)
(* The loop of a card has ended; the CDN has answered 404 to each of its   *)
(* downloads (no transient fault has occurred in the run).                 *)
(***************************************************************************)
EndedOn404 ==
  /\ LoopEnded
  /\ faults = 0
  /\ cdn[<< Ended.language, Ended.cardNum >>] = "404"

OwnFiles(card) == { p \in DOMAIN fs : p.dir = card.language /\ p.n = card.cardNum }

Answered404 ==
  /\ FixCalled
  /\ sortedIssues[ii].step = DOWNLOAD
  /\ faults' = faults
  /\ cdn'[<< Current.language, Current.cardNum >>] = "404"

RecordedAsDownloadFailure ==
  [][ Answered404 =>
        /\ fs' = fs
        /\ stats'.failed = stats.failed + 1
        /\ errors' = Append(errors, [cardNum |-> Current.cardNum,
                                     language |-> Current.language,
                                     step |-> DOWNLOAD])
        /\ pc' = "fix" ]_vars

(***************************************************************************)
(* C17 as stated.  When the loop of such a card has ended no file of the   *)
(* card exists, each of its 3 attempts is recorded as a failure of step    *)
(* Download, and the run goes on to its report.                            *)
(***************************************************************************)
C17_AsStated ==
  /\ [](EndedOn404 =>
          /\ \A p \in OwnFiles(Ended) : fs[p] = Absent
          /\ FailuresOf(Ended, DOWNLOAD) = 3)
  /\ RecordedAsDownloadFailure

(***************************************************************************)
(* C17, amended.  A download answered 404 changes no file, is counted and  *)
(* recorded as a failure of step Download and lets the pass go on.  When   *)
(* the loop of such a card has ended it has made 3 attempts, all recorded, *)
(* the original is still missing in both formats and every file of the     *)
(* card is as it was when the run started (a variant that was there        *)
(* before is still there).  A run that ends with such a card exits with 1. *)
(***************************************************************************)
C17_Permanent404 ==
  /\ [](EndedOn404 =>
          /\ attempt = 3
          /\ FailuresOf(Ended, DOWNLOAD) = 3
          /\ StepsOf(remainingIssues) = << DOWNLOAD >>
          /\ fs[GetFilePaths(Ended.cardNum, Ended.language).originalWebp] = Absent
          /\ \A p \in OwnFiles(Ended) : fs[p] = fs0[p])
  /\ []((pc = "done" /\ config.autoFix /\ \E k \in CardKeys : cdn[k] = "404")
          => exitCode = 1 /\ stats.failed >= 3)
  /\ RecordedAsDownloadFailure

\* the run has ended with its report after the card of the second language
\* got three 404s; the uncropped art_and_name it had is still there
C17_Witness ==
  /\ pc = "done"
  /\ faults = 0
  /\ cdn[<< languages[2], 1 >>] = "404"
  /\ FailuresOf([cardNum |-> 1, language |-> languages[2]], DOWNLOAD) = 3
  /\ fs[GetFilePaths(1, languages[2]).artAndNameWebp] = Image(734, 1024)
  /\ fs[GetFilePaths(1, languages[2]).originalWebp] = Absent


(***************************************************************************)
(* C18.  Exit code.  A repairing run that ends with its report exits with  *)
(* 0 exactly when every card validates to no issue on the files it leaves, *)
(* and with 1 exactly when some card still has issues; a dry run that ends *)
(* exits with 0.                                                           *)
(***************************************************************************)
StillHasIssues(k) ==
  Threw(fs, config, k[2], k[1]) \/ ValidateCard(fs, config, k[2], k[1]) # << >>

C18_ExitCode ==
  pc = "done" =>
    IF config.autoFix
      THEN /\ exitCode = 0 <=> \A k \in CardKeys : ~StillHasIssues(k)
           /\ exitCode = 1 <=> \E k \in CardKeys : StillHasIssues(k)
      ELSE exitCode = 0


(***************************************************************************)
(* What one downloadImage call with downloadSource "all" has done so far:  *)
(* the sources it attempted and those it sent a request to, in order.      *)
(***************************************************************************)
RECURSIVE SourcesLogged(_, _)
SourcesLogged(log, msg) ==
  IF log = << >> THEN << >>
  ELSE (IF log[1].msg = msg THEN << log[1].source >> ELSE << >>)
       \o SourcesLogged(Tail(log), msg)

Attempted == SourcesLogged(fixes, "Attempting")
Contacted == SourcesLogged(fixes, "Trying")

\* a source fails when it has no entry for the card, answers 404, or its
\* request fails
SourceFails(source) == providers[source] # "200"

(***************************************************************************)
(* C19.  Provider priority.  The sources are attempted in the order        *)
(* ravensburg, dreamborn, lorcast, each only after every source before it  *)
(* has failed; the call resolves with the file of the first source that    *)
(* succeeds, no later source being attempted; and the call ends rejected   *)
(* exactly when all three sources fail.                                    *)
(***************************************************************************)
C19_ProviderPriority ==
  /\ Attempted = SubSeq(sources, 1, Len(Attempted))
  /\ \A i \in 1..Len(Attempted) : \A j \in 1..(i - 1) : SourceFails(sources[j])
  /\ \A i \in 1..Len(Contacted) : Contacted[i] \in SourceSet
  /\ pc = "downloaded" =>
       /\ ~SourceFails(Attempted[Len(Attempted)])
       /\ fs[Path(languages[li], "original", cardNum, "webp", "")] = Image(734, 1024)
  /\ (pc \in { "downloaded", "download_failed", "crashed" }) =>
       /\ pc = "download_failed" <=> \A source \in SourceSet : SourceFails(source)
       /\ pc = "downloaded" <=> \E source \in SourceSet : ~SourceFails(source)


(***************************************************************************)
(* C20.  Ownership frame.  A step changes a file only while it repairs an  *)
(* issue of some card (L, n), and the file is then one of that card's own  *)
(* files (under L, numbered n) or, when L is the first language, a file of *)
(* the shared art_only of n.  No file of another card is created,          *)
(* modified or deleted.                                                    *)
(***************************************************************************)
C20_OwnershipFrame ==
  [][ \A p \in DOMAIN fs :
        fs'[p] # fs[p] =>
          /\ pc = "fix"
          /\ p.n = Current.cardNum
          /\ \/ p.dir = Current.language
             \/ /\ p.dir = "shared"
                /\ p.kind = "art_only"
                /\ Current.language = languages[1] ]_vars

\* a run that repaired files of the second language and the shared art_only
\* while the first language's original was left as it was
C20_Witness ==
  /\ pc = "done"
  /\ run = 1
  /\ \E p \in DOMAIN fs : p.dir = languages[2] /\ fs[p] # fs0[p]
  /\ \E p \in DOMAIN fs : p.dir = "shared" /\ fs[p] # fs0[p]
  /\ \A p \in DOMAIN fs :
       (p.dir = languages[1] /\ p.kind = "original" /\ p.tmp = "") =>
         fs[p] = fs0[p] /\ fs[p] # Absent


(***************************************************************************)
(* What a validateCard result says about one variant: a crop issue         *)
(* exactly when the WebP is missing or has the full height, a convert      *)
(* issue exactly when the AVIF is missing.                                 *)
(***************************************************************************)
VariantReported(issues, webp, avif, cropStep, convertStep) ==
  /\ HasIssue(issues, cropStep, webp) <=> (~CheckFileExists(fs, webp) \/ fs[webp].h = 1024)
  /\ HasIssue(issues, convertStep, avif) <=> ~CheckFileExists(fs, avif)

StepsIn(issues) == { issues[i].step : i \in 1..Len(issues) }

C22_AsStated ==
  \A c \in Calls : Returns(c) =>
    ~(RESIZE_ORIGINAL \in StepsIn(Returned(c)) /\ CONVERT_ORIGINAL \in StepsIn(Returned(c)))

(***************************************************************************)
(* C22, amended.  The AVIF of the original is checked whenever the         *)
(* original WebP exists, flagged for a resize or not: a result of          *)
(* validateCard holds a ConvertOriginal issue exactly when the original    *)
(* WebP exists and the original AVIF does not, and a Download issue never  *)
(* comes with a ResizeOriginal or ConvertOriginal issue.                   *)
(***************************************************************************)
C22_AvifCheckedWithOriginal ==
  \A c \in Calls : Returns(c) =>
    /\ HasIssue(Returned(c), CONVERT_ORIGINAL, PathsOf(c).originalAvif)
         <=> /\ CheckFileExists(fs, PathsOf(c).originalWebp)
             /\ ~CheckFileExists(fs, PathsOf(c).originalAvif)
    /\ DOWNLOAD \in StepsIn(Returned(c)) =>
         StepsIn(Returned(c)) \cap { RESIZE_ORIGINAL, CONVERT_ORIGINAL } = { }

\* validateCard is about to report a wrongly sized original both for a resize
\* and for its missing AVIF
C22_Witness ==
  \E c \in Calls :
    /\ Returns(c)
    /\ fs[PathsOf(c).originalWebp] = Image(674, 940)
    /\ HasIssue(Returned(c), RESIZE_ORIGINAL, PathsOf(c).originalWebp)
    /\ HasIssue(Returned(c), CONVERT_ORIGINAL, PathsOf(c).originalAvif)


(***************************************************************************)
(* The card the core modules are working on.                               *)
(***************************************************************************)
CorePaths == GetFilePaths(cardNum, languages[li])
SourceHeight == fs[CorePaths.originalWebp].h

\* floor(h * top) + (h - floor(h * bottomStart)), the fractions in thousandths
JoinedHeight(h, top, bottomStart) == (h * top) \div 1000 + (h - (h * bottomStart) \div 1000)

(***************************************************************************)
(* C23.  Crop arithmetic.  After cropCard has succeeded on a source of     *)
(* height h, art-only has the height floor(h*0.52) + (h - floor(h*0.931))  *)
(* and art+name the height floor(h*0.674) + (h - floor(h*0.925)), in both  *)
(* formats and at the width of the source; for the 734x1024 original these *)
(* are 603 and 767, the heights validation expects, and cropImage of the   *)
(* validator gives the same two sizes.                                     *)
(***************************************************************************)
C23_CropArithmetic ==
  (pc = "cropped" /\ fixResult.success) =>
    /\ \A p \in { CorePaths.artOnlyWebp, CorePaths.artOnlyAvif } :
         fs[p] = Image(734, JoinedHeight(SourceHeight, 520, 931))
    /\ \A p \in { CorePaths.artAndNameWebp, CorePaths.artAndNameAvif } :
         fs[p] = Image(734, JoinedHeight(SourceHeight, 674, 925))
    /\ SourceHeight = 1024 =>
         /\ fs[CorePaths.artOnlyWebp].h = 603
         /\ fs[CorePaths.artOnlyWebp].h = GetExpectedDimensions("art_only").height
         /\ fs[CorePaths.artAndNameWebp].h = 767
         /\ fs[CorePaths.artAndNameWebp].h = GetExpectedDimensions("art_and_name").height
         /\ CropImage(fs0, CorePaths.originalWebp, CorePaths.artOnlyWebp, TRUE, "ok")
              .files[CorePaths.artOnlyWebp] = Image(734, 603)
         /\ CropImage(fs0, CorePaths.originalWebp, CorePaths.artAndNameWebp, FALSE, "ok")
              .files[CorePaths.artAndNameWebp] = Image(734, 767)

\* cropCard has cropped a 734x1024 original into 734x603 and 734x767
C23_Witness ==
  /\ pc = "cropped"
  /\ fixResult.success
  /\ fs[CorePaths.originalWebp] = Image(734, 1024)
  /\ fs[CorePaths.artOnlyWebp] = Image(734, 603)
  /\ fs[CorePaths.artAndNameAvif] = Image(734, 767)


(***************************************************************************)
(* A fixIssue call for the given step that returns true.                   *)
(***************************************************************************)
Recovers(step) ==
  /\ FixCalled
  /\ sortedIssues[ii].step = step
  /\ stats'.recovered = stats.recovered + 1

(***************************************************************************)
(* C24.  A ResizeOriginal fix that succeeds leaves the original WebP at    *)
(* exactly 734x1024, and the original AVIF at exactly 734x1024 if there    *)
(* was one before the fix; if there was none the fix creates none.         *)
(***************************************************************************)
C24_ResizeBothFormats ==
  [][ Recovers(RESIZE_ORIGINAL) =>
        /\ fs'[CurrentPaths.originalWebp] = Image(734, 1024)
        /\ CheckFileExists(fs, CurrentPaths.originalAvif) =>
             fs'[CurrentPaths.originalAvif] = Image(734, 1024)
        /\ ~CheckFileExists(fs, CurrentPaths.originalAvif) =>
             ~CheckFileExists(fs', CurrentPaths.originalAvif) ]_vars

\* an original that started at 674x940 in both formats has been resized in both
C24_Witness ==
  \E i \in 1..Len(fixes) :
    /\ fixes[i].msg = "Resized"
    /\ fixes[i].path.ext = "avif"
    /\ fs0[fixes[i].path] = Image(674, 940)
    /\ fs[fixes[i].path] = Image(734, 1024)
    /\ fs[[fixes[i].path EXCEPT !.ext = "webp"]] = Image(734, 1024)


(***************************************************************************)
(* C25.  A ResizeOriginal or Convert fix that fails is counted as failed   *)
(* once and leaves every file as it was before the fix: the target absent  *)
(* or in its previous version, and no temporary file left behind.          *)
(***************************************************************************)
C25_FailedFixLeavesStorage ==
  [][ LET Fails(step) == /\ FixCalled
                         /\ sortedIssues[ii].step = step
                         /\ pc' = "fix"
                         /\ stats'.recovered = stats.recovered
      IN \A step \in { RESIZE_ORIGINAL, CONVERT_ORIGINAL, CONVERT_ART_ONLY,
                        CONVERT_ART_AND_NAME } :
           Fails(step) =>
             /\ stats'.failed = stats.failed + 1
             /\ fs' = fs
             /\ \A p \in DOMAIN fs : p.tmp # "" => fs'[p] = Absent ]_vars


(***************************************************************************)
(* What one fixCard call was given and what it did.                        *)
(***************************************************************************)
Called(op) == \E i \in 1..Len(invoked) : invoked[i] = op

(***************************************************************************)
(* C26.  fixCard chooses by the state of the full card: both formats       *)
(* missing, download then transform; exactly one missing, transform from   *)
(* the existing file without any download; both present and one of them    *)
(* invalid, download then transform; full card and variants valid,         *)
(* 'skipped' with no file written.  A call in which the download or the    *)
(* transform fails returns success=false with action 'failed'.             *)
(***************************************************************************)
C26_FixStrategies ==
  LET BothMissing == ~validation.webp.exists /\ ~validation.avif.exists
      OneMissing == validation.webp.exists # validation.avif.exists
      BothPresent == validation.webp.exists /\ validation.avif.exists
  IN
  pc \in { "core_fixed", "crashed" } =>
    /\ BothMissing => invoked[1] = "download"
    /\ OneMissing => invoked[1] = "transform" /\ ~Called("download")
    /\ (BothPresent /\ ~validation.isValid) => invoked[1] = "download"
    /\ (Called("download") /\ fixResult.success) =>
         /\ invoked = << "download", "transform", "crop" >>
         /\ fixResult.action = "downloaded"
    /\ (validation.isValid /\ ~NeedsCropping(validation)) =>
         /\ fixResult = FixResult(TRUE, "skipped", FALSE)
         /\ written = { }
         /\ fs = fs0
    /\ ~fixResult.success =>
         /\ pc = "core_fixed"
         /\ fixResult = FixResult(FALSE, "failed", FALSE)


(***************************************************************************)
(* C27.  Art-only is not regenerated.  When fixCard generates the cropped  *)
(* variants of a card whose art-only pair exists and whose art+name pair   *)
(* is missing, the art+name files are created and neither art-only file    *)
(* is written or changed, whichever language is processed.                 *)
(***************************************************************************)
C27_ArtOnlyNotRegenerated ==
  ( /\ pc = "core_fixed"
    /\ Called("crop")
    /\ CheckFileExists(fs0, CorePaths.artOnlyWebp)
    /\ CheckFileExists(fs0, CorePaths.artOnlyAvif)
    /\ ~CheckFileExists(fs0, CorePaths.artAndNameWebp)
    /\ ~CheckFileExists(fs0, CorePaths.artAndNameAvif)
    /\ CheckFileExists(fs, CorePaths.artAndNameWebp)
    /\ CheckFileExists(fs, CorePaths.artAndNameAvif) )
  => \A p \in { CorePaths.artOnlyWebp, CorePaths.artOnlyAvif } :
       p \notin written /\ fs[p] = fs0[p]


(***************************************************************************)
(* C28.  The AVIF of a variant is only ever encoded from a cropped WebP:   *)
(* no ConvertArtOnly or ConvertArtAndName fix writes an AVIF from a WebP   *)
(* of height 1024, also in a pass in which the crop of that variant has    *)
(* failed; and whenever validateCard returns no issue, the AVIF and the    *)
(* WebP of each expected variant have the same dimensions.                 *)
(***************************************************************************)
C28_AvifFromCroppedOnly ==
  /\ [][ LET ConvertSource(step) ==
               IF step = CONVERT_ART_ONLY THEN CurrentPaths.artOnlyWebp
                                          ELSE CurrentPaths.artAndNameWebp
         IN \A step \in { CONVERT_ART_ONLY, CONVERT_ART_AND_NAME } :
              Recovers(step) => fs[ConvertSource(step)].h # 1024 ]_vars
  /\ [](\A c \in Calls : (Returns(c) /\ Returned(c) = << >>) =>
          LET VariantPairs ==
                (IF config.skipVariants THEN { } ELSE
                   { << PathsOf(c).artAndNameWebp, PathsOf(c).artAndNameAvif >> })
                \cup (IF config.skipVariants \/ c.language # languages[1] THEN { } ELSE
                        { << PathsOf(c).artOnlyWebp, PathsOf(c).artOnlyAvif >> })
          IN \A v \in VariantPairs :
               fs[v[1]].w = fs[v[2]].w /\ fs[v[1]].h = fs[v[2]].h)


(***************************************************************************)
(* C29.  When the original WebP of a card is absent, validateCard returns  *)
(* exactly one issue, Download, whatever else is on disk.  A pass that     *)
(* starts without the original therefore holds the Download issue alone:   *)
(* no resize, convert or crop is applied in it, and when the download      *)
(* fails nothing else runs in that pass.                                   *)
(***************************************************************************)
C29_DownloadAlone ==
  /\ [](\A c \in Calls :
          ~CheckFileExists(fs, PathsOf(c).originalWebp) =>
            /\ Returns(c)
            /\ Returned(c) = << Issue(DOWNLOAD, PathsOf(c).originalWebp, c.language) >>)
  /\ [][ (pc = "while" /\ pc' = "fix" /\ ~CheckFileExists(fs, CurrentPaths.originalWebp)) =>
           StepsOf(sortedIssues') = << DOWNLOAD >> ]_vars
  /\ [](pc = "fix" =>
          /\ DOWNLOAD \in StepsIn(sortedIssues) => Len(sortedIssues) = 1
          /\ Called(DOWNLOAD) => invoked = << DOWNLOAD >>)

\* the download of a card with nothing on disk has failed and the pass is
\* over with no other step invoked
C29_Witness ==
  /\ pc = "fix"
  /\ ii > Len(sortedIssues)
  /\ invoked = << DOWNLOAD >>
  /\ FailuresOf(Current, DOWNLOAD) > 0
  /\ \A p \in DOMAIN fs :
       (p.dir = Current.language /\ p.n = Current.cardNum) => fs[p] = Absent


(***************************************************************************)
(* C30.  core/fix: when fixCard returns success with croppedVariants set   *)
(* (actions 'downloaded', 'transformed', 'cropped'), the art-only and the  *)
(* art+name variants of the card exist in both formats with their expected *)
(* dimensions; a generation of the variants that wrote none of them is     *)
(* reported with success = false.                                          *)
(***************************************************************************)
C30_CroppedVariantsReported ==
  (pc = "core_fixed" /\ fixResult.croppedVariants) =>
    LET after == CoreValidateCard(fs, cardNum, languages[li])
        VariantsWritten ==
          written \cap { CorePaths.artOnlyWebp, CorePaths.artOnlyAvif,
                         CorePaths.artAndNameWebp, CorePaths.artAndNameAvif }
    IN /\ fixResult.success => (after.artOnly.isValid /\ after.artAndName.isValid)
       /\ (Called("crop") /\ VariantsWritten = { }) => ~fixResult.success


(***************************************************************************)
(* C31.  Report counters: when a run ends with its report, stats.checked   *)
(* is the number of languages times the number of cards of cardRange,      *)
(* byLanguage[L].checked is the number of cards of cardRange, and          *)
(* stats.missing counts each (card, language) pair with issues at most     *)
(* once, also when the repair passes have validated cards again.           *)
(***************************************************************************)
C31_ReportCounters ==
  pc = "done" =>
    /\ stats.checked = Len(languages) * Cardinality(CardNums)
    /\ \A l \in LanguageSet : stats.byLanguage[l].checked = Cardinality(CardNums)
    /\ stats.missing <= Len(allIssues)


(***************************************************************************)
(* C33.  Counter consistency: in every state of a run each of the global   *)
(* counters checked, missing, recovered and failed is the sum of the same  *)
(* counter over byLanguage, and recovered + failed is the number of        *)
(* fixIssue invocations made so far: both are zero when a run starts,      *)
(* every invocation of fixIssue adds one to exactly one of them, and no    *)
(* other step changes them.                                                *)
(***************************************************************************)
C33_CounterConsistency ==
  /\ [](LET RECURSIVE SumByLanguage(_, _)
            SumByLanguage(counter, n) ==
              IF n = 0 THEN 0
              ELSE stats.byLanguage[languages[n]][counter] + SumByLanguage(counter, n - 1)
        IN \A counter \in { "checked", "missing", "recovered", "failed" } :
             stats[counter] = SumByLanguage(counter, Len(languages)))
  /\ [](pc = "phase1" => stats.recovered + stats.failed = 0)
  /\ [][ IF FixCalled
           THEN \/ stats'.recovered = stats.recovered + 1 /\ stats'.failed = stats.failed
                \/ stats'.failed = stats.failed + 1 /\ stats'.recovered = stats.recovered
           ELSE \/ stats'.recovered = stats.recovered /\ stats'.failed = stats.failed
                \/ stats' = InitialStats ]_vars


(***************************************************************************)
(* C32.  cleanupJpgFiles never deletes a source JPG whose conversions are  *)
(* incomplete: an entry leaves the directory only if it is the .jpg/.jpeg  *)
(* file the loop is at and both the .webp and the .avif of its base name   *)
(* exist at that moment; no other entry is removed or created; and         *)
(* deleted + skipped is the number of JPG files the loop has seen, the     *)
(* deleted ones being those that are gone.                                 *)
(***************************************************************************)
C32_CleanupKeepsUnconverted ==
  /\ [][ \A f \in DOMAIN setDir.entries :
           /\ (setDir.entries[f] /\ ~setDir'.entries[f]) =>
                /\ f.ext \in { "jpg", "JPEG" }
                /\ pc = "cleanup_loop" /\ f = dirFiles[fileIndex]
                /\ setDir.entries[[base |-> f.base, ext |-> "webp"]]
                /\ setDir.entries[[base |-> f.base, ext |-> "avif"]]
           /\ ~setDir.entries[f] => ~setDir'.entries[f] ]_vars
  /\ [](LET seen == { i \in 1..(fileIndex - 1) : dirFiles[i].ext \in { "jpg", "JPEG" } }
        IN /\ cleanupStats.deleted + cleanupStats.skipped = Cardinality(seen)
           /\ cleanupStats.deleted = Cardinality({ i \in seen : ~setDir.entries[dirFiles[i]] }))

\* a cleanup that deleted a converted JPG and kept one whose AVIF is missing
C32_Witness ==
  /\ pc = "cleaned"
  /\ faults = 0
  /\ cleanupStats.deleted >= 1
  /\ cleanupStats.skipped >= 1
  /\ \E f \in DOMAIN setDir.entries :
       /\ f.ext = "JPEG"
       /\ setDir.entries[f]
       /\ setDir.entries[[base |-> f.base, ext |-> "webp"]]
       /\ ~setDir.entries[[base |-> f.base, ext |-> "avif"]]

====
